---- MODULE Spec2Model ----
(***************************************************************************)
(* MSG_Analyser: the caching / pagination / annotation layer.             *)
(*                                                                         *)
(* The repository holds three variants of the analyser:                    *)
(*   "server"    src/server.py         OptimizedMSGAnalyzer (pagination,   *)
(*                                     page cache, full-document cache)    *)
(*   "analyser2" src/msg_analyser2.py  MSGAnalyzer (whole-collection       *)
(*                                     listing cache)                      *)
(*   "analyser"  src/msg_analyser.py   MSGAnalyzer (Flask; no cache, the   *)
(*                                     annotation writes are stubs)        *)
(* One run of the model is one running instance of one variant: impl is    *)
(* chosen in Init and never changes.  server.py and msg_analyser2.py serve *)
(* requests with socketserver.TCPServer, one request at a time, so every   *)
(* analyser method is one atomic action; where a claim is about what       *)
(* happens inside a request, the method is also given step by step.        *)
(*                                                                         *)
(* Strings that the code builds and compares (collection ids, document     *)
(* ids, cache keys) are sequences of one-character strings, so that the    *)
(* code's substring tests (`"messages_" + pid in key`) are computed as     *)
(* Python computes them.                                                   *)
(***************************************************************************)
EXTENDS Integers, Sequences, FiniteSets, TLC

VARIABLES
    impl,              \* which variant of the analyser is running
    fs,                \* base folder: collection id -> files, in glob order
    now,               \* time.time(), in seconds
    cache,             \* self._cache: key -> value
    cache_time,        \* self._cache_time: key -> time stored
    message_status,    \* self.message_status: document id -> status
    message_comments,  \* self.message_comments: document id -> list
    process_metadata,  \* self._process_metadata (server.py): the cached collection
                       \* listing and the time it was computed
    loading,           \* the listing request being served: the batch, the items
                       \* decoded so far, the decodes in progress
    calls,             \* the annotation write of each client: sent, being served
                       \* (and where in the method), or returned
    resp,              \* the last call: its arguments, what it returned, what it did
    written,           \* history: document id -> the status last written with success
    lastPage           \* history: listing key -> the listing last computed for it and
                       \* when, forgotten at every annotation write and cache clear

vars == <<impl, fs, now, cache, cache_time, message_status, message_comments,
          process_metadata, loading, calls, resp, written, lastPage>>

---------------------------------------------------------------------------
(* Bounds of the model *)

MaxTime == 300       \* the clock stops here
MaxCache == 2        \* callers stop asking for new keys when the cache holds this many
MaxComments == 1     \* callers stop commenting when this many comments are stored
MaxFail == 1         \* at most this many items of one batch fail to decode
MaxProcTime == 90    \* the clock of the collection listings stops here
MaxListdirFail == 1  \* at most this many enumerations in a row raise and then one succeeds
MaxAttach == 2       \* a document has at most this many attachments

(* Program constants *)

CacheTimeout == 300  \* self.cache_timeout

\* the time between two requests, when time passes: half the TTL
TickStep == CacheTimeout \div 2

---------------------------------------------------------------------------
(* Strings *)

Str_messages == <<"m", "e", "s", "s", "a", "g", "e", "s", "_">>
Str_full == <<"f", "u", "l", "l", "_">>
Us == <<"_">>

Digit(d) ==
    CASE d = 0 -> "0" [] d = 1 -> "1" [] d = 2 -> "2" [] d = 3 -> "3"
      [] d = 4 -> "4" [] d = 5 -> "5" [] d = 6 -> "6" [] d = 7 -> "7"
      [] d = 8 -> "8" [] d = 9 -> "9"

RECURSIVE NatStr(_)
NatStr(n) ==
    IF n < 10 THEN <<Digit(n)>> ELSE NatStr(n \div 10) \o <<Digit(n % 10)>>

\* str(n) inside an f-string
IntStr(n) == IF n < 0 THEN <<"-">> \o NatStr(-n) ELSE NatStr(n)

\* Python's `sub in s` for strings
Contains(sub, s) ==
    \E i \in 0..(Len(s) - Len(sub)) : SubSeq(s, i + 1, i + Len(sub)) = sub

\* Python's s[i:j] for a list
PySlice(s, i, j) ==
    LET n == Len(s)
        lo == IF i < 0 THEN (IF n + i < 0 THEN 0 ELSE n + i)
                       ELSE (IF i > n THEN n ELSE i)
        hi == IF j < 0 THEN (IF n + j < 0 THEN 0 ELSE n + j)
                       ELSE (IF j > n THEN n ELSE j)
    IN  IF lo < hi THEN SubSeq(s, lo + 1, hi) ELSE <<>>

\* dict.get(k, default)
DictGet(d, k, default) == IF k \in DOMAIN d THEN d[k] ELSE default

\* `del d[k]` for every k in ks
DictDel(d, ks) == [k \in (DOMAIN d) \ ks |-> d[k]]

\* d[k] = v
DictSet(d, k, v) == [x \in (DOMAIN d) \cup {k} |-> IF x = k THEN v ELSE d[x]]

EmptyDict == [k \in {} |-> 0]

\* list.sort(key=..., reverse=True) on a list of <<key, element>> pairs:
\* descending by key, stable (equal keys keep their order)
InsertDesc(p, s) ==
    LET smaller == {i \in 1..Len(s) : s[i][1] < p[1]}
        at == IF smaller = {} THEN Len(s) + 1
              ELSE CHOOSE i \in smaller : \A j \in smaller : i <= j
    IN  SubSeq(s, 1, at - 1) \o <<p>> \o SubSeq(s, at, Len(s))

RECURSIVE SortDescPairs(_)
\* (the sorted prefix is bound as a value, so that it is computed once)
SortDescPairs(s) ==
    IF s = <<>> THEN <<>>
    ELSE CHOOSE r \in {InsertDesc(s[Len(s)], t) :
                          t \in {SortDescPairs(SubSeq(s, 1, Len(s) - 1))}} : TRUE

RECURSIVE SelectIdx(_, _, _)
\* the elements of s at the indexes in keep, from index i on, in order
SelectIdx(s, keep, i) ==
    IF i > Len(s) THEN <<>>
    ELSE (IF i \in keep THEN <<s[i]>> ELSE <<>>) \o SelectIdx(s, keep, i + 1)


---------------------------------------------------------------------------
(* The base folder.  A file is [stem, mtime, date]: its name without       *)
(* ".msg", os.path.getmtime of it, and the date its message decodes to.    *)
(* Collection "a" holds x.msg and b_x.msg, collection "a_b" holds x.msg;   *)
(* no folder "z" exists.                                                   *)

Pid_a == <<"a">>
Pid_ab == <<"a", "_", "b">>
Pid_z == <<"z">>

Stem_x == <<"x">>
Stem_bx == <<"b", "_", "x">>

Fs0 ==
    (Pid_a :> << [stem |-> Stem_x, mtime |-> 2, date |-> 1],
                 [stem |-> Stem_bx, mtime |-> 1, date |-> 2] >>)
    @@ (Pid_ab :> << [stem |-> Stem_x, mtime |-> 1, date |-> 1] >>)

\* what callers ask for
Pids == {Pid_a, Pid_ab, Pid_z}
WritePids == {Pid_a, Pid_ab}
Limits == {-1, 1, 2}
Offsets == {0, 1}
Statuses == {"keep", "review"}
CommentFields == {"key", "nokey"}
\* what the environment does
DateSet == {1, 2}
EnumOutcomes == {"ok", "sortfail"}

\* message_id = f"{process_id}_{os.path.splitext(filename)[0]}"
MessageId(pid, stem) == pid \o Us \o stem

Mids == {MessageId(Pid_a, Stem_x), MessageId(Pid_a, Stem_bx)}

\* the id that b_x.msg of collection "a" and x.msg of collection "a_b" share
Mid_shared == MessageId(Pid_a, Stem_bx)

\* a document id that no file of the base folder gives
Stem_q == <<"q">>
Mid_unknown == MessageId(Pid_a, Stem_q)

\* cache_key = f"messages_{process_id}_{limit}_{offset}"
PageKey(pid, limit, offset) ==
    Str_messages \o pid \o Us \o IntStr(limit) \o Us \o IntStr(offset)

\* cache_key = f"messages_{process_id}"  (msg_analyser2.py)
ListKey(pid) == Str_messages \o pid

\* cache_key = f"full_{message_id}"
FullKey(mid) == Str_full \o mid

\* os.path.exists(os.path.join(self.base_folder, process_id))
PathExists(pid) == pid \in DOMAIN fs

\* A collection folder is kept as the list of its entries whose name ends
\* with ".msg", each by its stem (the name without ".msg").
\* glob.glob(os.path.join(process_path, "*.msg")): the "*" of the pattern
\* matches no name that begins with "."
glob_msg(files) ==
    SelectSeq(files, LAMBDA it : it.stem # <<>> /\ it.stem[1] # ".")

\* msg_files.sort(key=os.path.getmtime, reverse=True)
SortByMtime(files) ==
    LET sorted == SortDescPairs([i \in 1..Len(files) |-> <<files[i].mtime, files[i]>>])
    IN  [i \in 1..Len(files) |-> sorted[i][2]]

\* messages.sort(key=lambda x: x.get('date', ''), reverse=True)
SortByDate(docs) ==
    LET sorted == SortDescPairs([i \in 1..Len(docs) |-> <<docs[i].date, docs[i]>>])
    IN  [i \in 1..Len(docs) |-> sorted[i][2]]


---------------------------------------------------------------------------
(* Documents.  Of a document the model keeps the fields the annotations    *)
(* and the ordering depend on.  Its comment list is the list object of     *)
(* message_comments when the id has one ("alias": the stored list itself   *)
(* is put in the document) and a fresh empty list otherwise ("empty").     *)

\* _create_sample_message_data with "keep" as the status of a document that
\* has none
create_sample_message_data_keep(mid, date, view) ==
    [id |-> mid,
     date |-> date,
     status |-> DictGet(message_status, mid, "keep"),
     comments |-> IF mid \in DOMAIN message_comments THEN "alias" ELSE "empty",
     view |-> view]

\* server.py _create_sample_message_data; date is the random date it draws
create_sample_message_data(mid, date, view) ==
    [id |-> mid,
     date |-> date,
     status |-> DictGet(message_status, mid, "untagged"),
     comments |-> IF mid \in DOMAIN message_comments THEN "alias" ELSE "empty",
     view |-> view]

\* msg_analyser2.py: _parse_msg_file, then the saved status and comments
A2_message_data(mid, date) ==
    [id |-> mid,
     date |-> date,
     status |-> IF mid \in DOMAIN message_status
                THEN message_status[mid] ELSE "untagged",
     comments |-> IF mid \in DOMAIN message_comments THEN "alias" ELSE "empty",
     view |-> "row"]

\* msg_analyser.py: _parse_msg_file
A1_parse_msg_file(mid, date) ==
    [id |-> mid, date |-> date, status |-> "untagged", comments |-> "empty",
     view |-> "row"]

\* the comment list a caller reads in a document
CommentsOf(doc) ==
    IF doc.comments = "alias" THEN message_comments[doc.id] ELSE <<>>

\* the files of the slice the batch loop of _load_messages_batch iterates over
BatchFiles(pid, limit, offset) ==
    IF ~PathExists(pid) THEN <<>>
    ELSE PySlice(SortByMtime(glob_msg(fs[pid])), offset, offset + limit)

\* _load_messages_batch with a batch loop that stops at the first item that
\* raises (break in place of continue)
load_messages_batch_abort(pid, limit, offset, enum, failed, dates) ==
    IF ~PathExists(pid)
    THEN [messages |-> <<>>, total_count |-> 0, has_more |-> FALSE,
          offset |-> offset, limit |-> limit]
    ELSE
        LET msg_files == glob_msg(fs[pid])
            total_count == Len(msg_files)
            batch_files == BatchFiles(pid, limit, offset)
            decoded == [i \in 1..Len(batch_files) |->
                          create_sample_message_data(
                              MessageId(pid, batch_files[i].stem), dates[i], "row")]
            before == {i \in 1..Len(batch_files) : \A j \in failed : i < j}
            messages == IF enum = "sortfail" THEN <<>>
                        ELSE SortByDate(SelectIdx(decoded, before, 1))
        IN  [messages |-> messages, total_count |-> total_count,
             has_more |-> (offset + limit) < total_count,
             offset |-> offset, limit |-> limit]

\* server.py _load_messages_batch.  enum: whether sorting the enumerated
\* files by os.path.getmtime raised ("sortfail"); failed: the indexes of the
\* batch whose item raised; dates: the dates drawn for the items
load_messages_batch(pid, limit, offset, enum, failed, dates) ==
    IF ~PathExists(pid)
    THEN [messages |-> <<>>, total_count |-> 0, has_more |-> FALSE,
          offset |-> offset, limit |-> limit]
    ELSE
        LET msg_files == glob_msg(fs[pid])
            total_count == Len(msg_files)
            batch_files == BatchFiles(pid, limit, offset)
            decoded == [i \in 1..Len(batch_files) |->
                          create_sample_message_data(
                              MessageId(pid, batch_files[i].stem), dates[i], "row")]
            messages == IF enum = "sortfail" THEN <<>>
                        ELSE SortByDate(SelectIdx(decoded,
                                 (1..Len(batch_files)) \ failed, 1))
        IN  [messages |-> messages, total_count |-> total_count,
             has_more |-> (offset + limit) < total_count,
             offset |-> offset, limit |-> limit]

\* msg_analyser2.py get_messages_for_process; failed: the indexes of the
\* files whose parse returned None or raised
A2_get_messages_for_process(pid, failed) ==
    IF ~PathExists(pid) THEN <<>>
    ELSE LET msg_files == glob_msg(fs[pid])
             parsed == [i \in 1..Len(msg_files) |->
                          A2_message_data(MessageId(pid, msg_files[i].stem),
                                          msg_files[i].date)]
         IN  SortByDate(SelectIdx(parsed, (1..Len(msg_files)) \ failed, 1))

\* msg_analyser.py get_messages_for_process
A1_get_messages_for_process(pid, failed) ==
    IF ~PathExists(pid) THEN <<>>
    ELSE LET msg_files == glob_msg(fs[pid])
             parsed == [i \in 1..Len(msg_files) |->
                          A1_parse_msg_file(MessageId(pid, msg_files[i].stem),
                                            msg_files[i].date)]
         IN  SortByDate(SelectIdx(parsed, (1..Len(msg_files)) \ failed, 1))

\* the documents of a listing
Messages(value) == IF impl = "server" THEN value.messages ELSE value

---------------------------------------------------------------------------
(* State *)

NoResp == [op |-> "none"]

\* no listing request is being served
Idle == [on |-> FALSE]

\* the clients that send annotation writes at the same time
Clients == {"c1", "c2"}

\* a client that has sent no annotation write
NoCall == [on |-> FALSE, pc |-> "none"]

\* the analyser after __init__; the base folder is given by each specification
InitAnalyzer ==
    /\ now = 0
    /\ cache = EmptyDict
    /\ cache_time = EmptyDict
    /\ message_status = EmptyDict
    /\ message_comments = EmptyDict
    /\ process_metadata = EmptyDict
    /\ loading = Idle
    /\ calls = [c \in Clients |-> NoCall]
    /\ resp = NoResp
    /\ written = EmptyDict
    /\ lastPage = EmptyDict

Init ==
    /\ fs = Fs0
    /\ InitAnalyzer

\* time passes between two requests
Tick ==
    /\ now + TickStep <= MaxTime
    /\ now' = now + TickStep
    /\ resp' = NoResp
    /\ UNCHANGED <<impl, calls, process_metadata, loading, fs, cache, cache_time, message_status, message_comments,
                   written, lastPage>>

\* what the cache held under a key when a call came: an entry ("cached"),
\* none any more since a write deleted it ("deleted"), or none ("absent")
Prev(key) ==
    IF key \in DOMAIN cache THEN "cached"
    ELSE IF key \in DOMAIN cache_time THEN "deleted" ELSE "absent"

\* the age of the entry the cache held under a key when a call came
PrevAge(key) ==
    IF key \in DOMAIN cache THEN now - DictGet(cache_time, key, 0) ELSE -1

\* the response of a listing call and the history of the listings computed
Listed(pid, key, value, hit, enum, batch, failed) ==
    /\ resp' = [op |-> "page", pid |-> pid, key |-> key, value |-> value,
                fromCache |-> hit, prev |-> Prev(key), prevAge |-> PrevAge(key),
                enum |-> enum, batch |-> batch, failed |-> failed]
    /\ lastPage' = IF hit THEN lastPage
                   ELSE DictSet(lastPage, key, [value |-> value, at |-> now])

---------------------------------------------------------------------------
(* src/server.py: OptimizedMSGAnalyzer *)

\* the hit test with the comparison turned round
CacheLive_inverted(cache_key) ==
    /\ cache_key \in DOMAIN cache
    /\ now - DictGet(cache_time, cache_key, 0) > CacheTimeout

\* the hit test with <= in place of <
CacheLive_inclusive(cache_key) ==
    /\ cache_key \in DOMAIN cache
    /\ now - DictGet(cache_time, cache_key, 0) <= CacheTimeout

\* if (cache_key in self._cache and
\*     current_time - self._cache_time.get(cache_key, 0) < self.cache_timeout)
CacheLive(cache_key) ==
    /\ cache_key \in DOMAIN cache
    /\ now - DictGet(cache_time, cache_key, 0) < CacheTimeout

\* get_messages_for_process_optimized(process_id, limit, offset)
get_messages_for_process_optimized(pid, limit, offset, enum, failed, dates) ==
    LET cache_key == PageKey(pid, limit, offset)
        batch == BatchFiles(pid, limit, offset)
    IN
    /\ impl = "server"
    /\ IF CacheLive(cache_key)
       THEN /\ Listed(pid, cache_key, cache[cache_key], TRUE, "ok", <<>>, {})
            /\ UNCHANGED <<cache, cache_time>>
       ELSE LET messages == load_messages_batch(pid, limit, offset,
                                                enum, failed, dates)
            IN  /\ cache' = DictSet(cache, cache_key, messages)
                /\ cache_time' = DictSet(cache_time, cache_key, now)
                /\ Listed(pid, cache_key, messages, FALSE, enum,
                          [i \in 1..Len(batch) |-> MessageId(pid, batch[i].stem)],
                          failed)
    /\ UNCHANGED <<impl, calls, process_metadata, loading, fs, now, message_status, message_comments, written>>

\* get_message_full_content(process_id, message_id)
get_message_full_content(pid, mid, date) ==
    LET cache_key == FullKey(mid)
    IN
    /\ impl = "server"
    /\ IF cache_key \in DOMAIN cache
       THEN /\ resp' = [op |-> "full", pid |-> pid, mid |-> mid, key |-> cache_key,
                        value |-> cache[cache_key], fromCache |-> TRUE,
                        prev |-> Prev(cache_key),
                        prevAge |-> PrevAge(cache_key)]
            /\ UNCHANGED <<cache, cache_time>>
       ELSE LET full_message == create_sample_message_data(mid, date, "full")
            IN  /\ cache' = DictSet(cache, cache_key, full_message)
                /\ cache_time' = DictSet(cache_time, cache_key, now)
                /\ resp' = [op |-> "full", pid |-> pid, mid |-> mid, key |-> cache_key,
                            value |-> full_message, fromCache |-> FALSE,
                            prev |-> Prev(cache_key),
                            prevAge |-> PrevAge(cache_key)]
    /\ UNCHANGED <<impl, calls, process_metadata, loading, fs, now, message_status, message_comments, written,
                   lastPage>>

\* the deletion without its second disjunct: page entries only
InvalidatedKeys_pagesOnly(pid, mid) ==
    {key \in DOMAIN cache : Contains(Str_messages \o pid, key)}

\* the keys update_message_status and add_comment_to_message delete:
\*   if f"messages_{process_id}" in key or f"full_{message_id}" in key
InvalidatedKeys(pid, mid) ==
    {key \in DOMAIN cache :
        Contains(Str_messages \o pid, key) \/ Contains(Str_full \o mid, key)}

\* update_message_status(process_id, message_id, status)
update_message_status(pid, mid, status) ==
    /\ impl = "server"
    /\ message_status' = DictSet(message_status, mid, status)
    /\ cache' = DictDel(cache, InvalidatedKeys(pid, mid))
    /\ resp' = [op |-> "status", pid |-> pid, mid |-> mid, status |-> status,
                ok |-> TRUE]
    /\ written' = DictSet(written, mid, status)
    /\ lastPage' = EmptyDict
    /\ UNCHANGED <<impl, calls, process_metadata, loading, fs, now, cache_time, message_comments>>

\* a request body that is a JSON array holding the string "key", not an
\* object: `'key' in data` is true of it, data["date"] = ... raises TypeError
Body_array == "array"

\* add_comment_to_message when comment_data["date"] = ... raises: the empty
\* list of a document without comments has been stored by then, the append
\* and the invalidation are skipped, the except clause returns False and the
\* handler answers send_error(500, "Failed to add comment")
comment_write_raises(pid, mid, fields) ==
    /\ message_comments' =
          DictSet(message_comments, mid, DictGet(message_comments, mid, <<>>))
    /\ resp' = [op |-> "comment", pid |-> pid, mid |-> mid,
                comment |-> [fields |-> fields], ok |-> FALSE, code |-> 500]
    /\ UNCHANGED <<impl, calls, process_metadata, loading, fs, now, cache,
                   cache_time, message_status, written, lastPage>>

\* add_comment_to_message that stores a list of the new comment alone
add_comment_to_message_replace(pid, mid, fields) ==
    LET comment_data == [fields |-> fields, date |-> now]
    IN
    /\ impl = "server"
    /\ message_comments' = DictSet(message_comments, mid, <<comment_data>>)
    /\ cache' = DictDel(cache, InvalidatedKeys(pid, mid))
    /\ resp' = [op |-> "comment", pid |-> pid, mid |-> mid,
                comment |-> comment_data, ok |-> TRUE]
    /\ lastPage' = EmptyDict
    /\ UNCHANGED <<impl, calls, process_metadata, loading, fs, now, cache_time,
                   message_status, written>>

\* add_comment_to_message(process_id, message_id, comment_data)
add_comment_to_message(pid, mid, fields) ==
    LET comment_data == [fields |-> fields, date |-> now]
    IN
    /\ impl = "server"
    /\ IF fields = Body_array
       THEN comment_write_raises(pid, mid, fields)
       ELSE /\ message_comments' =
                  DictSet(message_comments, mid,
                          Append(DictGet(message_comments, mid, <<>>), comment_data))
            /\ cache' = DictDel(cache, InvalidatedKeys(pid, mid))
            /\ resp' = [op |-> "comment", pid |-> pid, mid |-> mid,
                        comment |-> comment_data, ok |-> TRUE]
            /\ lastPage' = EmptyDict
            /\ UNCHANGED <<impl, calls, process_metadata, loading, fs, now,
                           cache_time, message_status, written>>

\* clear_cache that forgets the times of the entries and keeps the entries
clear_cache_timesOnly ==
    /\ impl \in {"server", "analyser2"}
    /\ cache' = cache
    /\ cache_time' = EmptyDict
    /\ resp' = [op |-> "clear", dropped |-> 0]
    /\ lastPage' = EmptyDict
    /\ UNCHANGED <<impl, calls, process_metadata, loading, fs, now, message_status,
                   message_comments, written>>

\* clear_cache that empties the annotation maps as well
clear_cache_annotations ==
    /\ impl \in {"server", "analyser2"}
    /\ cache' = EmptyDict
    /\ cache_time' = EmptyDict
    /\ message_status' = EmptyDict
    /\ message_comments' = EmptyDict
    /\ resp' = [op |-> "clear", dropped |-> Cardinality(DOMAIN cache)]
    /\ lastPage' = EmptyDict
    /\ UNCHANGED <<impl, calls, process_metadata, loading, fs, now, written>>

\* clear_cache(), the same in server.py and msg_analyser2.py
clear_cache ==
    /\ impl \in {"server", "analyser2"}
    /\ cache' = EmptyDict
    /\ cache_time' = EmptyDict
    /\ resp' = [op |-> "clear", dropped |-> Cardinality(DOMAIN cache)]
    /\ lastPage' = EmptyDict
    /\ UNCHANGED <<impl, calls, process_metadata, loading, fs, now, message_status, message_comments, written>>

---------------------------------------------------------------------------
(* src/msg_analyser2.py: MSGAnalyzer *)

\* if (cache_key in self._cache and cache_key in self._cache_time and
\*     current_time - self._cache_time[cache_key] < self.cache_timeout)
A2_CacheLive(cache_key) ==
    /\ cache_key \in DOMAIN cache
    /\ cache_key \in DOMAIN cache_time
    /\ now - cache_time[cache_key] < CacheTimeout

\* get_messages_for_process_cached(process_id)
A2_get_messages_for_process_cached(pid, failed) ==
    LET cache_key == ListKey(pid)
    IN
    /\ impl = "analyser2"
    /\ IF A2_CacheLive(cache_key)
       THEN /\ Listed(pid, cache_key, cache[cache_key], TRUE, "ok", <<>>, {})
            /\ UNCHANGED <<cache, cache_time>>
       ELSE LET messages == A2_get_messages_for_process(pid, failed)
                files == IF PathExists(pid) THEN glob_msg(fs[pid]) ELSE <<>>
            IN  /\ cache' = DictSet(cache, cache_key, messages)
                /\ cache_time' = DictSet(cache_time, cache_key, now)
                /\ Listed(pid, cache_key, messages, FALSE, "ok",
                          [i \in 1..Len(files) |-> MessageId(pid, files[i].stem)],
                          failed)
    /\ UNCHANGED <<impl, calls, process_metadata, loading, fs, now, message_status, message_comments, written>>

\* update_message_status(process_id, message_id, status)
A2_update_message_status(pid, mid, status) ==
    /\ impl = "analyser2"
    /\ message_status' = DictSet(message_status, mid, status)
    /\ cache' = DictDel(cache, {ListKey(pid)})
    /\ resp' = [op |-> "status", pid |-> pid, mid |-> mid, status |-> status,
                ok |-> TRUE]
    /\ written' = DictSet(written, mid, status)
    /\ lastPage' = EmptyDict
    /\ UNCHANGED <<impl, calls, process_metadata, loading, fs, now, cache_time, message_comments>>

\* add_comment_to_message(process_id, message_id, comment_data)
A2_add_comment_to_message(pid, mid, fields) ==
    LET comment_data == [fields |-> fields, date |-> now]
    IN
    /\ impl = "analyser2"
    /\ IF fields = Body_array
       THEN comment_write_raises(pid, mid, fields)
       ELSE /\ message_comments' =
                  DictSet(message_comments, mid,
                          Append(DictGet(message_comments, mid, <<>>), comment_data))
            /\ cache' = DictDel(cache, {ListKey(pid)})
            /\ resp' = [op |-> "comment", pid |-> pid, mid |-> mid,
                        comment |-> comment_data, ok |-> TRUE]
            /\ lastPage' = EmptyDict
            /\ UNCHANGED <<impl, calls, process_metadata, loading, fs, now,
                           cache_time, message_status, written>>

---------------------------------------------------------------------------
(* src/msg_analyser.py: MSGAnalyzer (no cache, no annotation store) *)

\* get_messages_for_process(process_id)
A1_list_messages(pid, failed) ==
    LET messages == A1_get_messages_for_process(pid, failed)
        files == IF PathExists(pid) THEN glob_msg(fs[pid]) ELSE <<>>
    IN
    /\ impl = "analyser"
    /\ resp' = [op |-> "page", pid |-> pid, key |-> ListKey(pid),
                value |-> messages, fromCache |-> FALSE, prev |-> "absent",
                prevAge |-> -1, enum |-> "ok",
                batch |-> [i \in 1..Len(files) |-> MessageId(pid, files[i].stem)],
                failed |-> failed]
    /\ UNCHANGED <<impl, calls, process_metadata, loading, fs, now, cache, cache_time, message_status,
                   message_comments, written, lastPage>>

\* update_message_status(process_id, message_id, status): prints, returns True
A1_update_message_status(pid, mid, status) ==
    /\ impl = "analyser"
    /\ resp' = [op |-> "status", pid |-> pid, mid |-> mid, status |-> status,
                ok |-> TRUE]
    /\ written' = DictSet(written, mid, status)
    /\ UNCHANGED <<impl, calls, process_metadata, loading, fs, now, cache, cache_time, message_status,
                   message_comments, lastPage>>

\* add_comment_to_message(process_id, message_id, comment_data): prints, returns True
A1_add_comment_to_message(pid, mid, fields) ==
    /\ impl = "analyser"
    /\ resp' = [op |-> "comment", pid |-> pid, mid |-> mid,
                comment |-> [fields |-> fields, date |-> now], ok |-> TRUE]
    /\ UNCHANGED <<impl, calls, process_metadata, loading, fs, now, cache, cache_time, message_status,
                   message_comments, written, lastPage>>

---------------------------------------------------------------------------
(* The collection listing.  A listing is the set of its entries [id,       *)
(* count]: the code returns them in the order of os.listdir, which is      *)
(* arbitrary.  Of an enumeration the model keeps whether os.listdir of     *)
(* the base folder raised: the code then goes on with no collection.       *)

ProcessTimeout == 60   \* the age below which get_processes serves its cached listing

\* the time between two requests, when little time passes: half that age
ShortStep == ProcessTimeout \div 2

\* sample_folders = ["Marketing_Process", "Sales_Process", "HR_Process", "IT_Process"]
Pid_Marketing ==
    <<"M", "a", "r", "k", "e", "t", "i", "n", "g", "_", "P", "r", "o",
    "c", "e", "s", "s">>

Pid_Sales ==
    <<"S", "a", "l", "e", "s", "_", "P", "r", "o", "c", "e", "s",
    "s">>

Pid_HR ==
    <<"H", "R", "_", "P", "r", "o", "c", "e", "s", "s">>

Pid_IT ==
    <<"I", "T", "_", "P", "r", "o", "c", "e", "s", "s">>

sample_folders == {Pid_Marketing, Pid_Sales, Pid_HR, Pid_IT}

\* what _create_sample_structure returns
SampleProcesses == {[id |-> folder, count |-> 0] : folder \in sample_folders}

\* the base folder after _create_sample_structure: os.makedirs(exist_ok=True)
\* of each sample folder
WithSamples(f) ==
    [pid \in DOMAIN f \cup sample_folders |->
        IF pid \in DOMAIN f THEN f[pid] ELSE <<>>]

\* the loop over os.listdir(self.base_folder): an entry for every folder.
\* server.py counts the names of os.listdir(item_path) whose lower-cased form
\* ends with ".msg"; msg_analyser2.py and msg_analyser.py count
\* glob.glob(os.path.join(item_path, "*.msg"))
Enumerate(f, enum) ==
    IF enum = "fail" THEN {}
    ELSE {[id |-> pid,
           count |-> IF impl = "server" THEN Len(f[pid])
                     ELSE Len(glob_msg(f[pid]))] : pid \in DOMAIN f}

ListdirOutcomes == {"ok", "fail"}

\* time passes between two requests
ShortTick ==
    /\ now + ShortStep <= MaxProcTime
    /\ now' = now + ShortStep
    /\ resp' = NoResp
    /\ UNCHANGED <<impl, calls, fs, cache, cache_time, message_status, message_comments,
                   process_metadata, loading, written, lastPage>>

\* somebody creates the folder of a new collection in the base folder
mkdir(pid) ==
    /\ pid \notin DOMAIN fs
    /\ fs' = fs @@ (pid :> <<>>)
    /\ resp' = NoResp
    /\ UNCHANGED <<impl, calls, now, cache, cache_time, message_status, message_comments,
                   process_metadata, loading, written, lastPage>>

\* the hit test of get_processes with <= in place of <
ProcessesLive_inclusive ==
    /\ DOMAIN process_metadata # {}
    /\ now - process_metadata.timestamp <= ProcessTimeout

\* if self._process_metadata and
\*    time.time() - self._process_metadata.get('_timestamp', 0) < 60
ProcessesLive ==
    /\ DOMAIN process_metadata # {}
    /\ now - process_metadata.timestamp < ProcessTimeout

\* the age of the listing get_processes holds when a call comes
MetadataAge ==
    IF DOMAIN process_metadata # {} THEN now - process_metadata.timestamp ELSE -1

\* server.py get_processes()
get_processes(enum) ==
    /\ impl = "server"
    /\ IF ProcessesLive
       THEN /\ resp' = [op |-> "processes", ok |-> TRUE,
                        value |-> process_metadata.processes,
                        fromCache |-> TRUE, prevAge |-> MetadataAge,
                        enumerated |-> {}]
            /\ UNCHANGED <<fs, process_metadata>>
       ELSE LET enumerated == Enumerate(fs, enum)
                processes == IF enumerated = {} THEN SampleProcesses
                             ELSE enumerated
            IN  /\ fs' = IF enumerated = {} THEN WithSamples(fs) ELSE fs
                /\ process_metadata' = [processes |-> processes,
                                        timestamp |-> now]
                /\ resp' = [op |-> "processes", ok |-> TRUE,
                            value |-> processes, fromCache |-> FALSE,
                            prevAge |-> MetadataAge,
                            enumerated |-> enumerated]
    /\ UNCHANGED <<impl, calls, now, cache, cache_time, message_status,
                   message_comments, loading, written, lastPage>>

\* msg_analyser2.py get_processes()
A2_get_processes(enum) ==
    LET enumerated == Enumerate(fs, enum)
        processes == IF enumerated = {} THEN SampleProcesses ELSE enumerated
    IN
    /\ impl = "analyser2"
    /\ fs' = IF enumerated = {} THEN WithSamples(fs) ELSE fs
    /\ resp' = [op |-> "processes", ok |-> TRUE, value |-> processes,
                fromCache |-> FALSE, prevAge |-> -1,
                enumerated |-> enumerated]
    /\ UNCHANGED <<impl, calls, now, cache, cache_time, message_status,
                   message_comments, process_metadata, loading, written,
                   lastPage>>

\* msg_analyser.py get_processes(): when an enumeration gives no collection
\* it creates the sample folders and calls itself.  fails is the number of
\* enumerations that raise before one succeeds, or -1 when every enumeration
\* raises: the calls then nest until Python raises RecursionError
RECURSIVE A1_processes(_, _)
A1_processes(f, fails) ==
    IF fails = -1
    THEN [ok |-> FALSE, value |-> {}, fs |-> WithSamples(f)]
    ELSE LET enumerated == Enumerate(f, IF fails > 0 THEN "fail" ELSE "ok")
         IN  IF enumerated = {}
             THEN A1_processes(WithSamples(f),
                               IF fails > 0 THEN fails - 1 ELSE 0)
             ELSE [ok |-> TRUE, value |-> enumerated, fs |-> f]

A1_get_processes(fails) ==
    LET result == A1_processes(fs, fails)
    IN
    /\ impl = "analyser"
    /\ fs' = result.fs
    /\ resp' = [op |-> "processes", ok |-> result.ok, value |-> result.value,
                fromCache |-> FALSE, prevAge |-> -1,
                enumerated |-> Enumerate(fs, IF fails = 0 THEN "ok" ELSE "fail")]
    /\ UNCHANGED <<impl, calls, now, cache, cache_time, message_status,
                   message_comments, process_metadata, loading, written,
                   lastPage>>

---------------------------------------------------------------------------
(* msg_analyser.py get_processes() call by call: every enumeration that    *)
(* gives no collection is followed by a nested call of get_processes.      *)
(* Nothing in the code bounds the nesting; the interpreter ends it with a  *)
(* RecursionError when the call stack is RecursionLimit calls deep.        *)

RecursionLimit == 3  \* stands for sys.getrecursionlimit()

\* the route calls get_processes()
A1_call_get_processes ==
    /\ impl = "analyser"
    /\ ~loading.on
    /\ loading' = [on |-> TRUE, op |-> "get_processes", depth |-> 1]
    /\ resp' = NoResp
    /\ UNCHANGED <<impl, fs, now, cache, cache_time, message_status,
                   message_comments, process_metadata, calls, written,
                   lastPage>>

\* the body of the innermost call: the loop over os.listdir, then either the
\* return of the listing through all the callers, or the sample folders and
\* one more nested call
A1_get_processes_body(enum) ==
    LET enumerated == Enumerate(fs, enum)
    IN
    /\ impl = "analyser"
    /\ loading.on
    /\ loading.op = "get_processes"
    /\ IF enumerated # {}
       THEN /\ resp' = [op |-> "processes", ok |-> TRUE, value |-> enumerated,
                        fromCache |-> FALSE, prevAge |-> -1,
                        enumerated |-> enumerated, depth |-> loading.depth]
            /\ loading' = Idle
            /\ fs' = fs
       ELSE /\ fs' = WithSamples(fs)
            /\ IF loading.depth < RecursionLimit
               THEN /\ loading' = [loading EXCEPT !.depth = @ + 1]
                    /\ resp' = NoResp
               ELSE /\ loading' = Idle
                    /\ resp' = [op |-> "processes", ok |-> FALSE, value |-> {},
                                fromCache |-> FALSE, prevAge |-> -1,
                                enumerated |-> {}, depth |-> loading.depth]
    /\ UNCHANGED <<impl, now, cache, cache_time, message_status,
                   message_comments, process_metadata, calls, written,
                   lastPage>>

---------------------------------------------------------------------------
(* A listing request step by step.  The atomic listing actions above give  *)
(* the result of a request whose item decodes all return; here the batch   *)
(* loop is taken one item at a time, so that a decode can be in progress   *)
(* and can fail to return.  The request thread is the only thread of the   *)
(* server: no other request is taken up while one is being served.         *)

max_workers == 4     \* ThreadPoolExecutor(max_workers=4)

DefaultLimit == 50   \* limit=50, the default of a listing request

\* the limit of a list-page request without a limit parameter
QueryDefaultLimit == 50

Stem_c == <<"c">>
Stem_d == <<"d">>
Stem_e == <<"e">>

\* a base folder whose collection "a" holds more items than max_workers
Fs5 ==
    (Pid_a :> << [stem |-> Stem_x, mtime |-> 5, date |-> 1],
                 [stem |-> Stem_bx, mtime |-> 4, date |-> 2],
                 [stem |-> Stem_c, mtime |-> 3, date |-> 3],
                 [stem |-> Stem_d, mtime |-> 2, date |-> 4],
                 [stem |-> Stem_e, mtime |-> 1, date |-> 5] >>)
    @@ (Pid_ab :> << [stem |-> Stem_x, mtime |-> 1, date |-> 1] >>)

\* how the decode of an item ends when it ends
DecodeOutcomes == {"ok", "raise"}

\* server.py get_messages_for_process_optimized up to the batch loop of
\* _load_messages_batch, on a cache miss.  batch: the files the loop goes
\* over; docs: the list `messages` the loop appends to
begin_load(pid, limit, offset) ==
    /\ impl = "server"
    /\ ~loading.on
    /\ ~CacheLive(PageKey(pid, limit, offset))
    /\ loading' = [on |-> TRUE, pid |-> pid, limit |-> limit,
                   offset |-> offset, key |-> PageKey(pid, limit, offset),
                   batch |-> BatchFiles(pid, limit, offset), docs |-> <<>>,
                   i |-> 1, active |-> {}, hung |-> FALSE, failed |-> {},
                   started |-> now]
    /\ UNCHANGED <<impl, calls, fs, now, cache, cache_time, message_status,
                   message_comments, process_metadata, resp, written,
                   lastPage>>

\* msg_analyser2.py get_messages_for_process_cached up to the loop of
\* get_messages_for_process, on a cache miss
A2_begin_load(pid) ==
    /\ impl = "analyser2"
    /\ ~loading.on
    /\ ~A2_CacheLive(ListKey(pid))
    /\ loading' = [on |-> TRUE, pid |-> pid, limit |-> 0, offset |-> 0,
                   key |-> ListKey(pid),
                   batch |-> IF PathExists(pid) THEN glob_msg(fs[pid]) ELSE <<>>,
                   docs |-> <<>>,
                   i |-> 1, active |-> {}, hung |-> FALSE, failed |-> {},
                   started |-> now]
    /\ UNCHANGED <<impl, calls, fs, now, cache, cache_time, message_status,
                   message_comments, process_metadata, resp, written,
                   lastPage>>

\* a loop that hands every item left to a worker at once
start_decode_all(hangs) ==
    /\ loading.on
    /\ loading.active = {}
    /\ loading.i <= Len(loading.batch)
    /\ loading' = [loading EXCEPT !.active = loading.i..Len(loading.batch),
                                  !.hung = hangs]
    /\ UNCHANGED <<impl, calls, fs, now, cache, cache_time, message_status,
                   message_comments, process_metadata, resp, written,
                   lastPage>>

\* the loop body is entered for the next item: the request thread calls the
\* decode of the item.  hangs: the call never returns
start_decode(hangs) ==
    /\ loading.on
    /\ loading.active = {}
    /\ loading.i <= Len(loading.batch)
    /\ loading' = [loading EXCEPT !.active = {loading.i}, !.hung = hangs]
    /\ UNCHANGED <<impl, calls, fs, now, cache, cache_time, message_status,
                   message_comments, process_metadata, resp, written,
                   lastPage>>

\* the document the decode of the item in progress gives
DecodedItem ==
    LET file == loading.batch[loading.i]
        mid == MessageId(loading.pid, file.stem)
    IN  IF impl = "server" THEN create_sample_message_data(mid, 1, "row")
        ELSE A2_message_data(mid, file.date)

\* the decode of the item returns, and its document is appended, or raises,
\* and the item is left out; the loop goes on
end_decode(outcome) ==
    /\ loading.on
    /\ loading.i \in loading.active
    /\ ~loading.hung
    /\ loading' = [loading EXCEPT
                      !.active = @ \ {loading.i},
                      !.i = @ + 1,
                      !.docs = IF outcome = "ok"
                               THEN Append(@, DecodedItem) ELSE @,
                      !.failed = IF outcome = "raise"
                                 THEN @ \cup {loading.i} ELSE @]
    /\ UNCHANGED <<impl, calls, fs, now, cache, cache_time, message_status,
                   message_comments, process_metadata, resp, written,
                   lastPage>>

\* the ids of the files the loop went over
LoadedIds ==
    [j \in 1..Len(loading.batch) |->
        MessageId(loading.pid, loading.batch[j].stem)]

\* server.py: the loop is over; the page is sorted, stored and returned
finish_load ==
    LET total_count == IF PathExists(loading.pid)
                       THEN Len(glob_msg(fs[loading.pid])) ELSE 0
        result == [messages |-> SortByDate(loading.docs),
                   total_count |-> total_count,
                   has_more |-> PathExists(loading.pid)
                                /\ (loading.offset + loading.limit) < total_count,
                   offset |-> loading.offset, limit |-> loading.limit]
    IN
    /\ impl = "server"
    /\ loading.on
    /\ loading.i > Len(loading.batch)
    /\ loading.active = {}
    /\ cache' = DictSet(cache, loading.key, result)
    /\ cache_time' = DictSet(cache_time, loading.key, loading.started)
    /\ Listed(loading.pid, loading.key, result, FALSE, "ok", LoadedIds,
              loading.failed)
    /\ loading' = Idle
    /\ UNCHANGED <<impl, calls, fs, now, message_status, message_comments,
                   process_metadata, written>>

\* msg_analyser2.py: the loop is over; the listing is sorted, stored and
\* returned
A2_finish_load ==
    LET messages == SortByDate(loading.docs)
    IN
    /\ impl = "analyser2"
    /\ loading.on
    /\ loading.i > Len(loading.batch)
    /\ loading.active = {}
    /\ cache' = DictSet(cache, loading.key, messages)
    /\ cache_time' = DictSet(cache_time, loading.key, loading.started)
    /\ Listed(loading.pid, loading.key, messages, FALSE, "ok", LoadedIds,
              loading.failed)
    /\ loading' = Idle
    /\ UNCHANGED <<impl, calls, fs, now, message_status, message_comments,
                   process_metadata, written>>

---------------------------------------------------------------------------
(* Requests of several clients.  socketserver.TCPServer accepts a          *)
(* connection and runs its handler to the end on the one server thread     *)
(* before it accepts the next: requests that clients send at the same time *)
(* wait in the listen queue and are served one after the other.  The       *)
(* annotation writes are taken statement by statement, so that the order   *)
(* in which the statements of two calls could run is in the model and the  *)
(* server, not the size of the steps, is what keeps the calls apart.       *)

\* a server that hands every connection to a thread of its own
ServerFree_threaded == TRUE

\* the server thread is in serve_forever's loop, between two requests
ServerFree ==
    /\ ~loading.on
    /\ \A c \in Clients : ~calls[c].on

\* a call of another client is in the listen queue or being served
Overlaps(c) ==
    \/ \E d \in Clients \ {c} : calls[d].pc \in {"sent", "store", "invalidate"}
    \/ loading.on

\* client c sends POST /api/messages/<pid>/<mid>/comment, or .../status
\* with the status given
send_call(c, op, pid, mid, status) ==
    /\ impl \in {"server", "analyser2"}
    /\ calls[c].pc \in {"none", "returned"}
    /\ calls' = [calls EXCEPT ![c] =
                    [on |-> FALSE, pc |-> "sent", op |-> op, pid |-> pid,
                     mid |-> mid, status |-> status, overlap |-> Overlaps(c)]]
    /\ UNCHANGED <<impl, fs, now, cache, cache_time, message_status,
                   message_comments, process_metadata, loading, resp,
                   written, lastPage>>

\* add_comment_to_message up to its test:
\*   if message_id not in self.message_comments
begin_comment(c) ==
    /\ calls[c].pc = "sent"
    /\ calls[c].op = "comment"
    /\ ServerFree
    /\ calls' = [calls EXCEPT ![c] =
                    [@ EXCEPT !.on = TRUE, !.pc = "store",
                              !.overlap = @ \/ Overlaps(c)]
                    @@ [absent |-> calls[c].mid \notin DOMAIN message_comments]]
    /\ UNCHANGED <<impl, fs, now, cache, cache_time, message_status,
                   message_comments, process_metadata, loading, resp,
                   written, lastPage>>

\* the comment a call stores: the text of client c, dated by the server
CommentOf(c) == [fields |-> "key", text |-> c, date |-> now]

\* self.message_comments[message_id] = [] when the test found no list,
\* comment_data["date"] = ..., self.message_comments[message_id].append(...)
store_comment(c) ==
    LET mid == calls[c].mid
        list == IF calls[c].absent THEN <<>> ELSE message_comments[mid]
    IN
    /\ calls[c].pc = "store"
    /\ message_comments' = DictSet(message_comments, mid,
                                   Append(list, CommentOf(c)))
    /\ calls' = [calls EXCEPT ![c] =
                    [@ EXCEPT !.pc = "invalidate"]
                    @@ [comment |-> CommentOf(c)]]
    /\ UNCHANGED <<impl, fs, now, cache, cache_time, message_status,
                   process_metadata, loading, resp, written, lastPage>>

\* the deletion of the cache entries and `return True`, in server.py and in
\* msg_analyser2.py
end_comment(c) ==
    /\ calls[c].pc = "invalidate"
    /\ calls[c].op = "comment"
    /\ cache' = DictDel(cache,
                        IF impl = "server"
                        THEN InvalidatedKeys(calls[c].pid, calls[c].mid)
                        ELSE {ListKey(calls[c].pid)})
    /\ resp' = [op |-> "comment", pid |-> calls[c].pid, mid |-> calls[c].mid,
                comment |-> calls[c].comment, ok |-> TRUE]
    /\ lastPage' = EmptyDict
    /\ calls' = [calls EXCEPT ![c] = [@ EXCEPT !.on = FALSE, !.pc = "returned"]]
    /\ UNCHANGED <<impl, fs, now, cache_time, message_status,
                   message_comments, process_metadata, loading, written>>

\* update_message_status up to the deletion of the cache entries:
\*   self.message_status[message_id] = status
begin_status(c) ==
    /\ calls[c].pc = "sent"
    /\ calls[c].op = "status"
    /\ ServerFree
    /\ message_status' = DictSet(message_status, calls[c].mid, calls[c].status)
    /\ calls' = [calls EXCEPT ![c] =
                    [@ EXCEPT !.on = TRUE, !.pc = "invalidate",
                              !.overlap = @ \/ Overlaps(c)]]
    /\ UNCHANGED <<impl, fs, now, cache, cache_time, message_comments,
                   process_metadata, loading, resp, written, lastPage>>

\* the deletion of the cache entries and `return True`, in server.py and in
\* msg_analyser2.py
end_status(c) ==
    /\ calls[c].pc = "invalidate"
    /\ calls[c].op = "status"
    /\ cache' = DictDel(cache,
                        IF impl = "server"
                        THEN InvalidatedKeys(calls[c].pid, calls[c].mid)
                        ELSE {ListKey(calls[c].pid)})
    /\ resp' = [op |-> "status", pid |-> calls[c].pid, mid |-> calls[c].mid,
                status |-> calls[c].status, ok |-> TRUE]
    /\ written' = DictSet(written, calls[c].mid, calls[c].status)
    /\ lastPage' = EmptyDict
    /\ calls' = [calls EXCEPT ![c] = [@ EXCEPT !.on = FALSE, !.pc = "returned"]]
    /\ UNCHANGED <<impl, fs, now, cache_time, message_status,
                   message_comments, process_metadata, loading>>

---------------------------------------------------------------------------
(* Attachments: GET /api/attachment/<pid>/<mid>/<index>.  count is the      *)
(* number of attachments the .msg file of the document holds.              *)

RECURSIVE PyReplaceEmpty(_, _)
\* s.replace(old, ""): every occurrence of old, from the left, is taken out
PyReplaceEmpty(s, old) ==
    IF Len(s) < Len(old) THEN s
    ELSE IF SubSeq(s, 1, Len(old)) = old
         THEN PyReplaceEmpty(SubSeq(s, Len(old) + 1, Len(s)), old)
         ELSE <<s[1]>> \o PyReplaceEmpty(Tail(s), old)

\* msg_analyser2.py: os.path.exists(msg_file_path) for
\*   original_msg_id = message_id.replace(f"{process_id}_", "")
MsgFileExists(pid, mid) ==
    /\ PathExists(pid)
    /\ \E i \in 1..Len(fs[pid]) :
          fs[pid][i].stem = PyReplaceEmpty(mid, pid \o Us)

\* msg_analyser2.py get_attachment: what it raises, "none" when it returns
\* the path of the temporary file
A2_get_attachment(pid, mid, attachment_index, count) ==
    IF ~MsgFileExists(pid, mid) THEN "FileNotFoundError"
    ELSE IF count = 0 THEN "ValueError"
    ELSE IF 0 <= attachment_index /\ attachment_index < count THEN "none"
    ELSE "IndexError"

\* handle_attachment of msg_analyser2.py and of server.py: the status of the
\* response.  server.py's get_attachment returns a message for every index
handle_attachment(pid, mid, attachment_index, count) ==
    /\ impl \in {"server", "analyser2"}
    /\ resp' = [op |-> "attachment", pid |-> pid, mid |-> mid,
                index |-> attachment_index, count |-> count,
                exists |-> MsgFileExists(pid, mid),
                code |-> IF impl = "server" THEN 200
                         ELSE IF A2_get_attachment(pid, mid, attachment_index,
                                                   count) = "none"
                              THEN 200 ELSE 500]
    /\ UNCHANGED <<impl, fs, now, cache, cache_time, message_status,
                   message_comments, process_metadata, loading, calls,
                   written, lastPage>>

---------------------------------------------------------------------------
(* Request paths: how the GET handlers take a request path apart.          *)

Str_limit == <<"l", "i", "m", "i", "t">>
Str_offset == <<"o", "f", "f", "s", "e", "t">>
Str_api_messages == <<"/", "a", "p", "i", "/", "m", "e", "s", "s", "a", "g", "e", "s", "/">>
Str_api_attachment ==
    <<"/", "a", "p", "i", "/", "a", "t", "t", "a", "c", "h", "m", "e", "n", "t", "/">>

\* the first position of the character ch in s, 0 when there is none
IndexOf(s, ch) ==
    IF \E i \in 1..Len(s) : s[i] = ch
    THEN CHOOSE i \in 1..Len(s) : s[i] = ch /\ \A j \in 1..(i - 1) : s[j] # ch
    ELSE 0

\* Python's s.split(sep) for a separator of one character
RECURSIVE PySplit(_, _)
PySplit(s, sep) ==
    LET i == IndexOf(s, sep)
    IN  IF i = 0 THEN <<s>>
        ELSE <<SubSeq(s, 1, i - 1)>> \o PySplit(SubSeq(s, i + 1, Len(s)), sep)

\* urlparse(path).query: what follows the first "?", up to a "#"
urlparse_query(path) ==
    LET q == IndexOf(path, "?")
        rest == IF q = 0 THEN <<>> ELSE SubSeq(path, q + 1, Len(path))
        h == IndexOf(rest, "#")
    IN  IF h = 0 THEN rest ELSE SubSeq(rest, 1, h - 1)

\* parse_qs(query): the fields name=value separated by "&"; a field without
\* "=" and a field with a blank value are dropped; every name maps to the
\* list of its values (percent escapes are not decoded here: the paths of
\* the model hold none)
parse_qs(query) ==
    LET fields == PySplit(query, "&")
        name(f) == SubSeq(f, 1, IndexOf(f, "=") - 1)
        value(f) == SubSeq(f, IndexOf(f, "=") + 1, Len(f))
        kept == SelectSeq(fields, LAMBDA f : IndexOf(f, "=") > 0 /\ value(f) # <<>>)
        names == {name(kept[i]) : i \in 1..Len(kept)}
    IN  [n \in names |->
            LET mine == SelectSeq(kept, LAMBDA f : name(f) = n)
            IN  [i \in 1..Len(mine) |-> value(mine[i])]]

DigitChars == {"0", "1", "2", "3", "4", "5", "6", "7", "8", "9"}

DigitValue(ch) == CHOOSE d \in 0..9 : Digit(d) = ch

\* int(s) accepts an optional sign followed by decimal digits
IsIntLiteral(s) ==
    LET body == IF s # <<>> /\ s[1] \in {"-", "+"} THEN Tail(s) ELSE s
    IN  body # <<>> /\ \A i \in 1..Len(body) : body[i] \in DigitChars

RECURSIVE PyNat(_)
PyNat(s) ==
    IF s = <<>> THEN 0
    ELSE 10 * PyNat(SubSeq(s, 1, Len(s) - 1)) + DigitValue(s[Len(s)])

\* int(s) of a literal
PyInt(s) ==
    IF s[1] = "-" THEN 0 - PyNat(Tail(s))
    ELSE IF s[1] = "+" THEN PyNat(Tail(s)) ELSE PyNat(s)

\* server.py handle_messages: the collection id is the fourth part of the
\* raw request path split at "/"
RequestProcessId(path) ==
    LET path_parts == PySplit(path, "/")
    IN  IF Len(path_parts) > 3 THEN path_parts[4] ELSE <<>>

\* params.get(name, [default])[0], before int()
QueryParam(path, name) ==
    LET params == parse_qs(urlparse_query(path))
    IN  IF name \in DOMAIN params THEN params[name][1] ELSE <<>>

QueryParamsOk(path) ==
    \A name \in {Str_limit, Str_offset} :
        QueryParam(path, name) = <<>> \/ IsIntLiteral(QueryParam(path, name))

RequestLimit(path) ==
    IF QueryParam(path, Str_limit) = <<>> THEN QueryDefaultLimit
    ELSE PyInt(QueryParam(path, Str_limit))

RequestOffset(path) ==
    IF QueryParam(path, Str_offset) = <<>> THEN 0
    ELSE PyInt(QueryParam(path, Str_offset))

\* server.py handle_messages(self) for the request path `path`
handle_messages(path, enum, failed, dates) ==
    /\ impl = "server"
    /\ IF RequestProcessId(path) = <<>>
       THEN /\ resp' = [op |-> "page_error", path |-> path, code |-> 400]
            /\ UNCHANGED <<impl, fs, now, cache, cache_time, message_status,
                           message_comments, process_metadata, loading, calls,
                           written, lastPage>>
       ELSE IF ~QueryParamsOk(path)
       THEN /\ resp' = [op |-> "page_error", path |-> path, code |-> 500]
            /\ UNCHANGED <<impl, fs, now, cache, cache_time, message_status,
                           message_comments, process_metadata, loading, calls,
                           written, lastPage>>
       ELSE get_messages_for_process_optimized(RequestProcessId(path),
                RequestLimit(path), RequestOffset(path), enum, failed, dates)

\* the request paths of the list-page endpoint: the collection id as the
\* last path segment, then an optional query string
Amp == <<"&">>
Eq == <<"=">>
Qm == <<"?">>

MessagesPath(pid, query) ==
    Str_api_messages \o pid \o (IF query = <<>> THEN <<>> ELSE Qm \o query)

Queries ==
    {<<>>}
      \cup {Str_limit \o Eq \o IntStr(l) : l \in {1, 2}}
      \cup {Str_offset \o Eq \o IntStr(o) : o \in {1}}
      \cup {Str_limit \o Eq \o IntStr(l) \o Amp \o Str_offset \o Eq \o IntStr(o) :
               l \in {1, 2}, o \in {0, 1}}
      \cup {Str_limit \o Eq \o <<"x">>}

MessagesPaths ==
    {MessagesPath(pid, q) : pid \in Pids, q \in Queries}
      \cup {Str_api_messages}

---------------------------------------------------------------------------
(* A base folder with a file that a directory listing shows and that the   *)
(* pattern "*.msg" does not match.                                         *)

Stem_dot_x == <<".", "_", "x">>

\* collection "a" holds x.msg and ._x.msg, collection "a_b" holds x.msg
FsCount ==
    (Pid_a :> << [stem |-> Stem_x, mtime |-> 2, date |-> 1],
                 [stem |-> Stem_dot_x, mtime |-> 1, date |-> 2] >>)
    @@ (Pid_ab :> << [stem |-> Stem_x, mtime |-> 1, date |-> 1] >>)

---------------------------------------------------------------------------
(* The items of the store.                                                *)

\* the items of the store: a collection and the file stem of one of its items
StoreItems ==
    UNION {{<<pid, glob_msg(fs[pid])[i].stem>> :
               i \in 1..Len(glob_msg(fs[pid]))} : pid \in DOMAIN fs}

---------------------------------------------------------------------------
(* Attachment links: the URL a document's attachment descriptor carries    *)
(* and the attachment endpoint applied to a request path.                  *)

Stem_ax == <<"a", "_", "x">>

\* a base folder where a file name repeats the name of its collection
FsLink ==
    (Pid_a :> << [stem |-> Stem_x, mtime |-> 2, date |-> 1],
                 [stem |-> Stem_ax, mtime |-> 1, date |-> 2] >>)
    @@ (Pid_ab :> << [stem |-> Stem_x, mtime |-> 1, date |-> 1] >>)

Sl == <<"/">>

\* _extract_attachments(msg, message_id) for a file with `count` named
\* attachments: the url of each descriptor
extract_attachments(mid, count) ==
    [i \in 1..count |->
        [index |-> i - 1,
         url |-> Str_api_attachment \o mid \o Sl \o IntStr(i - 1)]]

\* the form the endpoint is declared with:
\*   /api/attachment/<process_id>/<message_id>/<index>
AttachmentPath(pid, mid, index) ==
    Str_api_attachment \o pid \o Sl \o mid \o Sl \o IntStr(index)

\* original_msg_id of get_attachment
original_msg_id(pid, mid) == PyReplaceEmpty(mid, pid \o Us)

\* what the attachment endpoint answers with for a path it took apart
AttachmentAnswer(path, pid, mid, index, count) ==
    LET raised == A2_get_attachment(pid, mid, index, count)
    IN  [op |-> "attachment_url", path |-> path, parsed |-> TRUE,
         pid |-> pid, mid |-> mid, index |-> index, count |-> count,
         original_msg_id |-> original_msg_id(pid, mid),
         code |-> IF raised = "none" THEN 200 ELSE 500]

AttachmentRefused(path, code) ==
    [op |-> "attachment_url", path |-> path, parsed |-> FALSE, code |-> code]

\* msg_analyser2.py handle_attachment(self) for the request path `path`;
\* count: the number of attachments of the file get_attachment opens
A2_handle_attachment(path, count) ==
    LET path_parts == PySplit(path, "/")
    IN
    /\ impl = "analyser2"
    /\ resp' = IF Len(path_parts) < 6
               THEN AttachmentRefused(path, 400)
               ELSE IF ~IsIntLiteral(path_parts[6])
               THEN AttachmentRefused(path, 400)
               ELSE AttachmentAnswer(path, path_parts[4], path_parts[5],
                                     PyInt(path_parts[6]), count)
    /\ UNCHANGED <<impl, fs, now, cache, cache_time, message_status,
                   message_comments, process_metadata, loading, calls,
                   written, lastPage>>

\* msg_analyser.py: the route
\*   /api/attachment/<process_id>/<message_id>/<int:attachment_index>
\* matches a path of exactly three further segments, none empty, the last
\* one digits only; a path it does not match is answered 404
A1_route_get_attachment(path, count) ==
    LET path_parts == PySplit(path, "/")
        matches == /\ Len(path_parts) = 6
                   /\ path_parts[4] # <<>> /\ path_parts[5] # <<>>
                   /\ path_parts[6] # <<>>
                   /\ \A i \in 1..Len(path_parts[6]) :
                         path_parts[6][i] \in DigitChars
    IN
    /\ impl = "analyser"
    /\ resp' = IF ~matches
               THEN AttachmentRefused(path, 404)
               ELSE AttachmentAnswer(path, path_parts[4], path_parts[5],
                                     PyNat(path_parts[6]), count)
    /\ UNCHANGED <<impl, fs, now, cache, cache_time, message_status,
                   message_comments, process_metadata, loading, calls,
                   written, lastPage>>

\* the attachment URLs the listings of the store emit, for every number of
\* attachments an item may hold
EmittedAttachmentUrls ==
    UNION {{extract_attachments(MessageId(it[1], it[2]), count)[i].url :
               i \in 1..count} : it \in StoreItems, count \in 1..MaxAttach}

---------------------------------------------------------------------------
(* The request handlers of the annotation writes.  A request carries the   *)
(* collection id and the document id of its path and a JSON body; of the   *)
(* body the model keeps the status it gives, and whether it has a 'key'.   *)

\* if status not in ['keep', 'review', 'untagged']
ValidStatuses == {"keep", "review", "untagged"}

\* the statuses a client posts; "bogus" is any value outside the three
StatusInputs == {"keep", "untagged", "bogus"}

\* the answer to a request that the handler refuses: send_error(400, ...)
Rejected(r) ==
    /\ resp' = r
    /\ UNCHANGED <<impl, calls, fs, now, cache, cache_time, message_status,
                   message_comments, process_metadata, loading, written,
                   lastPage>>

\* handle_update_status without its test of the status
handle_update_status_unchecked(pid, mid, status) ==
    update_message_status(pid, mid, status)

\* server.py MSGHandler.handle_update_status
handle_update_status(pid, mid, status) ==
    /\ impl = "server"
    /\ IF status \notin ValidStatuses
       THEN Rejected([op |-> "status", pid |-> pid, mid |-> mid,
                      status |-> status, ok |-> FALSE, code |-> 400])
       ELSE update_message_status(pid, mid, status)

\* server.py MSGHandler.handle_add_comment: the body is passed on as it is
handle_add_comment(pid, mid, fields) ==
    add_comment_to_message(pid, mid, fields)

\* msg_analyser2.py MSGHandler.handle_update_status
A2_handle_update_status(pid, mid, status) ==
    /\ impl = "analyser2"
    /\ IF status \notin ValidStatuses
       THEN Rejected([op |-> "status", pid |-> pid, mid |-> mid,
                      status |-> status, ok |-> FALSE, code |-> 400])
       ELSE A2_update_message_status(pid, mid, status)

\* msg_analyser2.py MSGHandler.handle_add_comment: if 'key' not in data
A2_handle_add_comment(pid, mid, fields) ==
    /\ impl = "analyser2"
    /\ IF fields = "nokey"
       THEN Rejected([op |-> "comment", pid |-> pid, mid |-> mid,
                      comment |-> [fields |-> fields], ok |-> FALSE,
                      code |-> 400])
       ELSE A2_add_comment_to_message(pid, mid, fields)

\* msg_analyser.py route update_message_status
A1_route_update_message_status(pid, mid, status) ==
    /\ impl = "analyser"
    /\ IF status \notin ValidStatuses
       THEN Rejected([op |-> "status", pid |-> pid, mid |-> mid,
                      status |-> status, ok |-> FALSE, code |-> 400])
       ELSE A1_update_message_status(pid, mid, status)

\* msg_analyser.py route add_comment: required_fields key, labels, text
A1_route_add_comment(pid, mid, fields) ==
    /\ impl = "analyser"
    /\ IF fields = "nokey"
       THEN Rejected([op |-> "comment", pid |-> pid, mid |-> mid,
                      comment |-> [fields |-> fields], ok |-> FALSE,
                      code |-> 400])
       ELSE A1_add_comment_to_message(pid, mid, fields)

---------------------------------------------------------------------------
(* Specifications.  Each is one instance under one workload: the requests  *)
(* its callers make and what the environment does to the decodes.          *)

RECURSIVE SumLen(_, _)
SumLen(d, S) ==
    IF S = {} THEN 0
    ELSE LET m == CHOOSE m \in S : TRUE IN Len(d[m]) + SumLen(d, S \ {m})

\* the number of comments stored
TotalComments == SumLen(message_comments, DOMAIN message_comments)

\* callers stop asking for keys the cache does not hold once it is full
Room(key) == key \in DOMAIN cache \/ Cardinality(DOMAIN cache) < MaxCache

\* every item of a batch gets the same date
SameDates(pid, limit, offset) ==
    [i \in 1..Len(BatchFiles(pid, limit, offset)) |-> 1]

\* Spec: listings, full views and status writes at one instant
StatusPages == {<<Pid_a, 2, 0>>, <<Pid_ab, 1, 0>>}

InitSpec == Init /\ impl \in {"server", "analyser2", "analyser"}

Next ==
    \/ \E r \in StatusPages :
          /\ Room(PageKey(r[1], r[2], r[3]))
          /\ get_messages_for_process_optimized(r[1], r[2], r[3], "ok", {},
                                                SameDates(r[1], r[2], r[3]))
    \/ \E pid \in WritePids, mid \in Mids :
          /\ Room(FullKey(mid))
          /\ get_message_full_content(pid, mid, 1)
    \/ \E pid \in WritePids, mid \in Mids, status \in Statuses :
          update_message_status(pid, mid, status)
    \/ clear_cache
    \/ \E pid \in WritePids :
          /\ Room(ListKey(pid))
          /\ A2_get_messages_for_process_cached(pid, {})
    \/ \E pid \in WritePids, mid \in Mids, status \in Statuses :
          A2_update_message_status(pid, mid, status)
    \/ \E pid \in WritePids : A1_list_messages(pid, {})
    \/ \E pid \in WritePids, mid \in Mids, status \in Statuses :
          A1_update_message_status(pid, mid, status)

Spec == InitSpec /\ [][Next]_vars

\* SpecComment: listings, full views and comment writes at one instant
InitComment == Init /\ impl \in {"server", "analyser2", "analyser"}

NextComment ==
    \/ \E r \in StatusPages :
          /\ Room(PageKey(r[1], r[2], r[3]))
          /\ get_messages_for_process_optimized(r[1], r[2], r[3], "ok", {},
                                                SameDates(r[1], r[2], r[3]))
    \/ \E pid \in WritePids, mid \in Mids :
          /\ Room(FullKey(mid))
          /\ get_message_full_content(pid, mid, 1)
    \/ \E pid \in WritePids, mid \in Mids, fields \in CommentFields :
          /\ TotalComments < MaxComments
          /\ add_comment_to_message(pid, mid, fields)
    \/ clear_cache
    \/ \E pid \in WritePids :
          /\ Room(ListKey(pid))
          /\ A2_get_messages_for_process_cached(pid, {})
    \/ \E pid \in WritePids, mid \in Mids, fields \in CommentFields :
          /\ TotalComments < MaxComments
          /\ A2_add_comment_to_message(pid, mid, fields)
    \/ \E pid \in WritePids : A1_list_messages(pid, {})
    \/ \E pid \in WritePids, mid \in Mids, fields \in CommentFields :
          A1_add_comment_to_message(pid, mid, fields)

SpecComment == InitComment /\ [][NextComment]_vars

\* SpecTTL: one listing and one full view while time passes, with status
\* writes and cache clears in between; a recomputed document draws a new date
InitTTL == Init /\ impl \in {"server", "analyser2"}

NextTTL ==
    \/ Tick
    \/ \E dates \in [1..2 -> DateSet] :
          /\ Room(PageKey(Pid_a, 2, 0))
          /\ get_messages_for_process_optimized(Pid_a, 2, 0, "ok", {}, dates)
    \/ \E date \in DateSet :
          /\ Room(FullKey(MessageId(Pid_a, Stem_x)))
          /\ get_message_full_content(Pid_a, MessageId(Pid_a, Stem_x), date)
    \/ \E status \in Statuses :
          update_message_status(Pid_a, MessageId(Pid_a, Stem_x), status)
    \/ clear_cache
    \/ \E failed \in SUBSET (1..2) :
          /\ Cardinality(failed) <= MaxFail
          /\ Room(ListKey(Pid_a))
          /\ A2_get_messages_for_process_cached(Pid_a, failed)
    \/ \E status \in Statuses :
          A2_update_message_status(Pid_a, MessageId(Pid_a, Stem_x), status)

SpecTTL == InitTTL /\ [][NextTTL]_vars

\* SpecPage: every page of every collection, with decodes that fail and
\* enumerations that fail
InitPage == Init /\ impl \in {"server", "analyser2"}

NextPage ==
    \/ \E pid \in Pids, limit \in Limits, offset \in Offsets :
          LET n == Len(BatchFiles(pid, limit, offset))
          IN  \E enum \in (IF n = 0 THEN {"ok"} ELSE EnumOutcomes),
                 failed \in SUBSET (1..n), dates \in [1..n -> DateSet] :
                 /\ Cardinality(failed) <= MaxFail
                 /\ enum = "sortfail" => failed = {}
                 /\ Room(PageKey(pid, limit, offset))
                 /\ get_messages_for_process_optimized(pid, limit, offset,
                                                       enum, failed, dates)
    \/ clear_cache
    \/ \E pid \in Pids :
          LET n == IF PathExists(pid) THEN Len(glob_msg(fs[pid])) ELSE 0
          IN  \E failed \in SUBSET (1..n) :
                 /\ Cardinality(failed) <= MaxFail
                 /\ Room(ListKey(pid))
                 /\ A2_get_messages_for_process_cached(pid, failed)

SpecPage == InitPage /\ [][NextPage]_vars

\* SpecValidate: annotation write requests through the handlers, with
\* bodies the handlers should refuse, next to listings and full views
InitValidate == Init /\ impl \in {"server", "analyser2", "analyser"}

NextValidate ==
    \/ /\ Room(PageKey(Pid_a, 2, 0))
       /\ get_messages_for_process_optimized(Pid_a, 2, 0, "ok", {},
                                             SameDates(Pid_a, 2, 0))
    \/ /\ Room(FullKey(MessageId(Pid_a, Stem_x)))
       /\ get_message_full_content(Pid_a, MessageId(Pid_a, Stem_x), 1)
    \/ \E mid \in Mids, status \in StatusInputs :
          handle_update_status(Pid_a, mid, status)
    \/ \E mid \in Mids, fields \in CommentFields :
          /\ TotalComments < MaxComments
          /\ handle_add_comment(Pid_a, mid, fields)
    \/ /\ Room(ListKey(Pid_a))
       /\ A2_get_messages_for_process_cached(Pid_a, {})
    \/ \E mid \in Mids, status \in StatusInputs :
          A2_handle_update_status(Pid_a, mid, status)
    \/ \E mid \in Mids, fields \in CommentFields :
          /\ TotalComments < MaxComments
          /\ A2_handle_add_comment(Pid_a, mid, fields)
    \/ A1_list_messages(Pid_a, {})
    \/ \E mid \in Mids, status \in StatusInputs :
          A1_route_update_message_status(Pid_a, mid, status)
    \/ \E mid \in Mids, fields \in CommentFields :
          A1_route_add_comment(Pid_a, mid, fields)

SpecValidate == InitValidate /\ [][NextValidate]_vars

\* SpecProc: collection listings of a base folder that is empty or not,
\* while time passes, folders are created and the cache is cleared
InitProc ==
    /\ fs \in {Fs0, EmptyDict}
    /\ InitAnalyzer
    /\ impl \in {"server", "analyser2", "analyser"}

NextProc ==
    \/ ShortTick
    \/ mkdir(Pid_z)
    \/ \E enum \in ListdirOutcomes : get_processes(enum)
    \/ clear_cache
    \/ \E enum \in ListdirOutcomes : A2_get_processes(enum)
    \/ \E fails \in -1..MaxListdirFail : A1_get_processes(fails)

SpecProc == InitProc /\ [][NextProc]_vars

\* SpecDecode: listing requests taken item by item, with decodes that
\* raise and, where a decode reads the file (msg_analyser2.py), decodes that
\* never return.  The request thread keeps running: WF on every step
InitDecode ==
    /\ fs = Fs5
    /\ InitAnalyzer
    /\ impl \in {"server", "analyser2"}

NextDecode ==
    \/ \E pid \in WritePids :
          /\ Room(PageKey(pid, DefaultLimit, 0))
          /\ begin_load(pid, DefaultLimit, 0)
    \/ \E pid \in WritePids :
          /\ ~loading.on
          /\ CacheLive(PageKey(pid, DefaultLimit, 0))
          /\ get_messages_for_process_optimized(pid, DefaultLimit, 0, "ok", {},
                SameDates(pid, DefaultLimit, 0))
    \/ \E hangs \in (IF impl = "analyser2" THEN BOOLEAN ELSE {FALSE}) :
          start_decode(hangs)
    \/ \E outcome \in DecodeOutcomes :
          /\ loading.on
          /\ outcome = "raise" => Cardinality(loading.failed) < MaxFail
          /\ end_decode(outcome)
    \/ finish_load
    \/ \E pid \in WritePids :
          /\ Room(ListKey(pid))
          /\ A2_begin_load(pid)
    \/ \E pid \in WritePids :
          /\ ~loading.on
          /\ A2_CacheLive(ListKey(pid))
          /\ A2_get_messages_for_process_cached(pid, {})
    \/ A2_finish_load
    \/ ~loading.on /\ clear_cache

SpecDecode == InitDecode /\ [][NextDecode]_vars /\ WF_vars(NextDecode)

\* SpecComments: two clients send comments at the same time, for the same
\* document or for two documents, between listings and with time passing
InitComments == Init /\ impl \in {"server", "analyser2"}

NextComments ==
    \/ \E c \in Clients, mid \in Mids :
          /\ TotalComments + Cardinality({d \in Clients : calls[d].pc \in
                                {"sent", "store"}}) < MaxComments + 1
          /\ send_call(c, "comment", Pid_a, mid, "none")
    \/ \E c \in Clients : begin_comment(c)
    \/ \E c \in Clients : store_comment(c)
    \/ \E c \in Clients : end_comment(c)
    \/ /\ ServerFree
       /\ Room(PageKey(Pid_a, 2, 0))
       /\ get_messages_for_process_optimized(Pid_a, 2, 0, "ok", {},
             SameDates(Pid_a, 2, 0))
    \/ /\ ServerFree
       /\ Room(ListKey(Pid_a))
       /\ A2_get_messages_for_process_cached(Pid_a, {})
    \/ ServerFree /\ Tick

SpecComments == InitComments /\ [][NextComments]_vars

\* SpecRace: listings of collection "a" taken item by item, and status
\* writes for its documents that clients send while a listing is served
InitRace == Init /\ impl \in {"server", "analyser2"}

NextRace ==
    \/ \E c \in Clients, mid \in Mids, status \in Statuses :
          /\ calls[c].pc = "none"
          /\ send_call(c, "status", Pid_a, mid, status)
    \/ \E c \in Clients : begin_status(c)
    \/ \E c \in Clients : end_status(c)
    \/ ServerFree /\ begin_load(Pid_a, 2, 0)
    \/ /\ ServerFree
       /\ CacheLive(PageKey(Pid_a, 2, 0))
       /\ get_messages_for_process_optimized(Pid_a, 2, 0, "ok", {},
             SameDates(Pid_a, 2, 0))
    \/ start_decode(FALSE)
    \/ loading.on /\ end_decode("ok")
    \/ finish_load
    \/ ServerFree /\ A2_begin_load(Pid_a)
    \/ /\ ServerFree
       /\ A2_CacheLive(ListKey(Pid_a))
       /\ A2_get_messages_for_process_cached(Pid_a, {})
    \/ A2_finish_load

SpecRace == InitRace /\ [][NextRace]_vars

\* SpecFull: full views asked for documents that exist, for a document of
\* another collection and for ids that no file gives, between status writes
InitFull == Init /\ impl = "server"

NextFull ==
    \/ \E pid \in Pids, mid \in Mids \cup {Mid_unknown}, date \in DateSet :
          /\ Room(FullKey(mid))
          /\ get_message_full_content(pid, mid, date)
    \/ \E mid \in Mids, status \in Statuses :
          update_message_status(Pid_a, mid, status)
    \/ clear_cache

SpecFull == InitFull /\ [][NextFull]_vars

\* SpecAnnot: every operation on the annotations and on the views that show
\* them: listings, full views, collection listings, status writes, comment
\* writes (also addressed to the other collection that holds a document of
\* the same id), clears, and time passing
InitAnnot == Init /\ impl \in {"server", "analyser2"}

NextAnnot ==
    \/ /\ Room(PageKey(Pid_a, 2, 0))
       /\ get_messages_for_process_optimized(Pid_a, 2, 0, "ok", {},
                                             SameDates(Pid_a, 2, 0))
    \/ /\ Room(FullKey(Mid_shared))
       /\ get_message_full_content(Pid_a, Mid_shared, 1)
    \/ \E pid \in WritePids : update_message_status(pid, Mid_shared, "keep")
    \/ \E pid \in WritePids :
          /\ TotalComments <= MaxComments
          /\ add_comment_to_message(pid, Mid_shared, "key")
    \/ clear_cache
    \/ get_processes("ok")
    \/ /\ Room(ListKey(Pid_a))
       /\ A2_get_messages_for_process_cached(Pid_a, {})
    \/ \E pid \in WritePids : A2_update_message_status(pid, Mid_shared, "keep")
    \/ \E pid \in WritePids :
          /\ TotalComments <= MaxComments
          /\ A2_add_comment_to_message(pid, Mid_shared, "key")
    \/ A2_get_processes("ok")
    \/ Tick

SpecAnnot == InitAnnot /\ [][NextAnnot]_vars

\* SpecAttach: attachment requests for documents that exist and that do
\* not, with every index from -1 to the number of attachments and beyond
InitAttach == Init /\ impl \in {"server", "analyser2"}

NextAttach ==
    \E pid \in WritePids, mid \in Mids \cup {Mid_unknown},
       attachment_index \in -1..MaxAttach, count \in 0..MaxAttach :
          handle_attachment(pid, mid, attachment_index, count)

SpecAttach == InitAttach /\ [][NextAttach]_vars

\* SpecQuery: server.py's list-page endpoint driven by request paths, with
\* and without a query string
InitQuery == Init /\ impl = "server"

NextQuery ==
    \/ \E path \in MessagesPaths :
          LET pid == RequestProcessId(path)
              ok == pid # <<>> /\ QueryParamsOk(path)
              n == IF ok THEN Len(BatchFiles(pid, RequestLimit(path),
                                             RequestOffset(path)))
                   ELSE 0
          IN  \E enum \in (IF n = 0 THEN {"ok"} ELSE EnumOutcomes),
                 failed \in SUBSET (1..n), dates \in [1..n -> DateSet] :
                 /\ Cardinality(failed) <= MaxFail
                 /\ enum = "sortfail" => failed = {}
                 /\ ok => Room(PageKey(pid, RequestLimit(path), RequestOffset(path)))
                 /\ handle_messages(path, enum, failed, dates)
    \/ clear_cache

SpecQuery == InitQuery /\ [][NextQuery]_vars

\* SpecLink: the attachment endpoints of msg_analyser2.py and
\* msg_analyser.py asked with the URLs the listings emit and with paths of
\* the declared form, over a folder where a file name repeats the name of
\* its collection
InitLink ==
    /\ fs = FsLink
    /\ InitAnalyzer
    /\ impl \in {"analyser2", "analyser"}

LinkIds == {MessageId(it[1], it[2]) : it \in StoreItems} \cup {Mid_unknown}

NextLink ==
    \/ \E url \in EmittedAttachmentUrls, count \in 0..MaxAttach :
          \/ A2_handle_attachment(url, count)
          \/ A1_route_get_attachment(url, count)
    \/ \E pid \in Pids, mid \in LinkIds, index \in -1..MaxAttach,
          count \in 0..MaxAttach :
          \/ A2_handle_attachment(AttachmentPath(pid, mid, index), count)
          \/ A1_route_get_attachment(AttachmentPath(pid, mid, index), count)

SpecLink == InitLink /\ [][NextLink]_vars

\* SpecRecur: collection listings of server.py, and of msg_analyser.py
\* taken call by call, over a base folder that is empty or not and whose
\* enumeration may raise every time it is tried
InitRecur ==
    /\ fs \in {Fs0, EmptyDict}
    /\ InitAnalyzer
    /\ impl \in {"server", "analyser"}

NextRecur ==
    \/ ~loading.on /\ ShortTick
    \/ ~loading.on /\ mkdir(Pid_z)
    \/ \E enum \in ListdirOutcomes : get_processes(enum)
    \/ clear_cache
    \/ A1_call_get_processes
    \/ \E enum \in ListdirOutcomes : A1_get_processes_body(enum)

SpecRecur == InitRecur /\ [][NextRecur]_vars

\* SpecFail: annotation writes through the handlers of server.py and
\* msg_analyser2.py with bodies that are refused, bodies that are stored and
\* bodies on which the write raises, next to listings and clears
InitFail == Init /\ impl \in {"server", "analyser2"}

NextFail ==
    \/ \E pid \in WritePids :
          /\ Room(PageKey(pid, 2, 0))
          /\ get_messages_for_process_optimized(pid, 2, 0, "ok", {},
                                                SameDates(pid, 2, 0))
    \/ \E pid \in WritePids :
          /\ Room(ListKey(pid))
          /\ A2_get_messages_for_process_cached(pid, {})
    \/ \E pid \in WritePids, mid \in Mids, status \in StatusInputs :
          \/ handle_update_status(pid, mid, status)
          \/ A2_handle_update_status(pid, mid, status)
    \/ \E pid \in WritePids, mid \in Mids,
          fields \in CommentFields \cup {Body_array} :
          /\ TotalComments < MaxComments
          /\ \/ handle_add_comment(pid, mid, fields)
             \/ A2_handle_add_comment(pid, mid, fields)
    \/ clear_cache

SpecFail == InitFail /\ [][NextFail]_vars

\* SpecCount: server.py's collection listing next to every page of every
\* collection, with decodes and enumerations that fail, over a base folder
\* that holds a dot-file
InitCount ==
    /\ fs = FsCount
    /\ InitAnalyzer
    /\ impl = "server"

NextCount ==
    \/ \E pid \in Pids, limit \in Limits, offset \in Offsets :
          LET n == Len(BatchFiles(pid, limit, offset))
          IN  \E enum \in (IF n = 0 THEN {"ok"} ELSE EnumOutcomes),
                 failed \in SUBSET (1..n), dates \in [1..n -> DateSet] :
                 /\ Cardinality(failed) <= MaxFail
                 /\ enum = "sortfail" => failed = {}
                 /\ Room(PageKey(pid, limit, offset))
                 /\ get_messages_for_process_optimized(pid, limit, offset,
                                                       enum, failed, dates)
    \/ \E enum \in ListdirOutcomes : get_processes(enum)
    \/ clear_cache

SpecCount == InitCount /\ [][NextCount]_vars

---------------------------------------------------------------------------
(* Properties *)

\* the ids of the documents a collection holds
DocIds(pid) ==
    IF PathExists(pid)
    THEN {MessageId(pid, glob_msg(fs[pid])[i].stem) :
            i \in 1..Len(glob_msg(fs[pid]))}
    ELSE {}

\* key is a listing entry of collection pid
IsPageKeyOf(key, pid) ==
    IF impl = "server"
    THEN \E limit \in Limits, offset \in Offsets : key = PageKey(pid, limit, offset)
    ELSE key = ListKey(pid)

\* C1: once a status write for a document has succeeded, the next listing of
\* the collection the write was addressed to shows every document with that
\* id with the written status, whatever the cache held before the write
C1_ListingShowsWrittenStatus ==
    [][(/\ resp.op = "status"
        /\ resp.ok
        /\ resp'.op = "page"
        /\ resp'.pid = resp.pid)
       => \A i \in 1..Len(Messages(resp'.value)) :
             Messages(resp'.value)[i].id = resp.mid
                => Messages(resp'.value)[i].status = resp.status]_vars

\* C2: an annotation write for a document of collection X leaves every cached
\* listing entry of another collection and every cached full-document entry
\* of another document in the cache, with the value it had
C2_WriteKeepsOtherEntries ==
    [][(/\ resp'.op \in {"status", "comment"}
        /\ resp'.mid \in DocIds(resp'.pid))
       => \A key \in DOMAIN cache :
             (\/ \E pid \in Pids \ {resp'.pid} : IsPageKeyOf(key, pid)
              \/ \E mid \in Mids \ {resp'.mid} : key = FullKey(mid))
             => key \in DOMAIN cache' /\ cache'[key] = cache[key]]_vars

\* C3: a full view of a document whose status has been written returns the
\* document with the status last written, also when a full-document entry
\* for it was cached before the write
C3_FullShowsWrittenStatus ==
    (resp.op = "full" /\ resp.mid \in DOMAIN written)
        => resp.value.status = written[resp.mid]

\* a full view recomputed because a status write deleted the entry cached
\* before it
C3_Witness ==
    /\ resp.op = "full"
    /\ resp.prev = "deleted"
    /\ resp.mid \in DOMAIN written
    /\ resp.value.status = written[resp.mid]

\* C4: once a comment write for a document has succeeded, the next listing
\* of the collection the write was addressed to and the next full view of
\* the document show the new comment as the last element of the document's
\* comment list
C4_ViewsShowNewComment ==
    [][(resp.op = "comment" /\ resp.ok)
       => LET LastIs(s, c) == Len(s) > 0 /\ s[Len(s)] = c
          IN  /\ (resp'.op = "page" /\ resp'.pid = resp.pid)
                 => \A i \in 1..Len(Messages(resp'.value)) :
                       Messages(resp'.value)[i].id = resp.mid
                          => LastIs(CommentsOf(Messages(resp'.value)[i]),
                                    resp.comment)
              /\ (resp'.op = "full" /\ resp'.mid = resp.mid)
                 => LastIs(CommentsOf(resp'.value), resp.comment)]_vars

\* C5: a listing asked again for the same key within the TTL of the listing
\* last computed for it, with no annotation write and no clear in between,
\* is served from the cache, equals that listing and decodes nothing
C5_RepeatServedFromCache ==
    [][(/\ resp'.op = "page"
        /\ resp'.key \in DOMAIN lastPage
        /\ now - lastPage[resp'.key].at < CacheTimeout)
       => /\ resp'.fromCache
          /\ resp'.value = lastPage[resp'.key].value
          /\ resp'.batch = <<>>]_vars

\* a listing served from an entry stored some time before, within the TTL
C5_Witness ==
    /\ resp.op = "page"
    /\ resp.fromCache
    /\ resp.prevAge > 0
    /\ resp.key \in DOMAIN lastPage
    /\ resp.value = lastPage[resp.key].value

\* C6: a listing is served from the cache only from an entry younger than
\* the TTL; a call that finds an entry of age TTL or more recomputes the
\* listing and stores it with the time of the call
C6_PageServedOnlyWithinTTL ==
    resp.op = "page"
       => /\ resp.fromCache => (resp.prevAge >= 0 /\ resp.prevAge < CacheTimeout)
          /\ resp.prevAge >= CacheTimeout
                => /\ ~resp.fromCache
                   /\ cache[resp.key] = resp.value
                   /\ cache_time[resp.key] = now

\* a listing recomputed over an entry whose age had reached the TTL
C6_Witness ==
    /\ resp.op = "page"
    /\ resp.prev = "cached"
    /\ resp.prevAge >= CacheTimeout
    /\ ~resp.fromCache

\* C7: a full view is never served from a cached entry whose age is the TTL
\* or more
C7_FullServedOnlyWithinTTL ==
    (resp.op = "full" /\ resp.fromCache) => resp.prevAge < CacheTimeout

\* C8: every page result, computed or cached, has
\* has_more = (offset + limit < total_count) for the offset and limit it echoes
C8_HasMoreFormula ==
    (resp.op = "page" /\ impl = "server")
       => resp.value.has_more
             = (resp.value.offset + resp.value.limit < resp.value.total_count)

\* C9: the number of documents of a page result is never more than
\* min(limit, max(0, total_count - offset)) and equals it when the page was
\* computed with no failed item
C9_PageLength ==
    (resp.op = "page" /\ impl = "server")
       => LET Min(x, y) == IF x < y THEN x ELSE y
              Max(x, y) == IF x > y THEN x ELSE y
              expected == Min(resp.value.limit,
                              Max(0, resp.value.total_count - resp.value.offset))
          IN  /\ Len(resp.value.messages) <= expected
              /\ (~resp.fromCache /\ resp.failed = {})
                    => Len(resp.value.messages) = expected

\* C10: a listing computed with exactly one failed item out of N holds
\* exactly the N-1 others, and its total_count is the number of files of the
\* collection
C10_OneFailureDropsOneItem ==
    (resp.op = "page" /\ ~resp.fromCache /\ Cardinality(resp.failed) = 1)
       => /\ resp.enum = "ok"
          /\ Len(Messages(resp.value)) = Len(resp.batch) - 1
          /\ {Messages(resp.value)[i].id : i \in 1..Len(Messages(resp.value))}
                = {resp.batch[i] : i \in (1..Len(resp.batch)) \ resp.failed}
          /\ impl = "server" => resp.value.total_count = Len(fs[resp.pid])

\* a listing of two items computed with one of them failed
C10_Witness ==
    /\ resp.op = "page"
    /\ ~resp.fromCache
    /\ Cardinality(resp.failed) = 1
    /\ Len(resp.batch) = 2
    /\ Len(Messages(resp.value)) = 1

\* C11: in every listing a document with a later date precedes one with an
\* earlier date, and of two documents with the same date the one with the
\* lower id (as Python orders strings) precedes
C11_OrderedByDateThenId ==
    resp.op = "page"
       => LET docs == Messages(resp.value)
              Ord(c) == CASE c = "_" -> 95 [] c = "a" -> 97 [] c = "b" -> 98
                          [] c = "x" -> 120 [] c = "z" -> 122 [] OTHER -> 0
              StrLess(s, t) ==
                  \E k \in 1..(Len(s) + 1) :
                     /\ \A j \in 1..(k - 1) : j <= Len(t) /\ s[j] = t[j]
                     /\ \/ k = Len(s) + 1 /\ k <= Len(t)
                        \/ /\ k <= Len(s)
                           /\ k <= Len(t)
                           /\ Ord(s[k]) < Ord(t[k])
          IN  \A i, j \in 1..Len(docs) :
                 i < j => \/ docs[i].date > docs[j].date
                          \/ /\ docs[i].date = docs[j].date
                             /\ StrLess(docs[i].id, docs[j].id)

\* C12: a page computed for an existing collection whose items all decode
\* holds the documents at positions offset .. offset+limit-1 of the
\* collection's items ordered by the date of their messages, newest first,
\* each with that date, with total_count the number of items and has_more
\* telling whether items follow
C12_PageIsSliceOfDateOrder ==
    (/\ resp.op = "page"
     /\ impl = "server"
     /\ ~resp.fromCache
     /\ resp.enum = "ok"
     /\ resp.failed = {}
     /\ PathExists(resp.pid)
     /\ resp.value.limit > 0
     /\ resp.value.offset >= 0)
       => LET docs == resp.value.messages
              expected == PySlice(SortByDate(fs[resp.pid]), resp.value.offset,
                                  resp.value.offset + resp.value.limit)
          IN  /\ Len(docs) = Len(expected)
              /\ \A i \in 1..Len(docs) :
                    /\ docs[i].id = MessageId(resp.pid, expected[i].stem)
                    /\ docs[i].date = expected[i].date
              /\ resp.value.total_count = Len(fs[resp.pid])
              /\ resp.value.has_more
                    = (resp.value.offset + resp.value.limit < Len(fs[resp.pid]))

\* C13: a comment request whose body has no 'key' is refused, and leaves the
\* stored comments, the stored statuses and the cache as they were
C13_CommentWithoutKeyRejected ==
    [][(resp'.op = "comment" /\ resp'.comment.fields = "nokey")
       => /\ ~resp'.ok
          /\ UNCHANGED <<message_status, message_comments, cache>>]_vars

\* C14: a status request whose status is not one of untagged, keep, review
\* is refused and leaves the stored statuses, the stored comments and the
\* cache as they were, and every stored status is one of the three
C14_InvalidStatusRejected ==
    /\ [](\A mid \in DOMAIN message_status :
             message_status[mid] \in ValidStatuses)
    /\ [][(resp'.op = "status" /\ resp'.status \notin ValidStatuses)
          => /\ ~resp'.ok
             /\ UNCHANGED <<message_status, message_comments, cache>>]_vars

\* a refused status request, made when a status was stored and an entry cached
C14_Witness ==
    /\ resp.op = "status"
    /\ resp.status \notin ValidStatuses
    /\ ~resp.ok
    /\ message_status # EmptyDict
    /\ cache # EmptyDict

\* C15: a clear leaves no entry in the cache, and a listing or a full view
\* asked right after it is recomputed, whatever the age of the entries the
\* cache held
C15_ClearDropsEverything ==
    [][/\ resp'.op = "clear" => cache' = EmptyDict
       /\ (resp.op = "clear" /\ resp'.op \in {"page", "full"})
             => ~resp'.fromCache]_vars

\* a clear that dropped entries stored some time before
C15_Witness ==
    /\ resp.op = "clear"
    /\ resp.dropped > 0
    /\ now > 0
    /\ cache = EmptyDict

\* C16: a collection listing asked right after a clear is enumerated anew,
\* not served from the listing cached before the clear
C16_ClearDropsCollectionListing ==
    [][(resp.op = "clear" /\ resp'.op = "processes") => ~resp'.fromCache]_vars

\* C17: a collection listing is never empty, and a call whose enumeration
\* gives no collection returns the four sample collections, each with count 0
C17_ListingNeverEmpty ==
    resp.op = "processes"
       => /\ resp.ok => resp.value # {}
          /\ (~resp.fromCache /\ resp.enumerated = {})
                => resp.ok /\ resp.value = SampleProcesses

\* C18: a collection listing is served from the cached one only while that
\* is younger than 60 seconds; a call that finds a cached listing of age 60
\* or more enumerates anew and replaces it
C18_ListingServedOnlyWithin60s ==
    (resp.op = "processes" /\ impl = "server")
       => /\ resp.fromCache
                => (resp.prevAge >= 0 /\ resp.prevAge < ProcessTimeout)
          /\ resp.prevAge >= ProcessTimeout
                => /\ ~resp.fromCache
                   /\ process_metadata.processes = resp.value
                   /\ process_metadata.timestamp = now

\* a collection listing enumerated anew over a cached one of age 60 or more
C18_Witness ==
    /\ resp.op = "processes"
    /\ impl = "server"
    /\ resp.prevAge >= ProcessTimeout
    /\ ~resp.fromCache

\* C19: a listing request that has been taken up is answered in the end,
\* also when the decode of one of its items never returns: the item is
\* given up after the per-item timeout and the others are listed
C19_PageRequestReturns ==
    loading.on ~> ~loading.on

\* C20: of one listing request, never more than max_workers item decodes
\* are in progress at the same time
C20_DecodesWithinPoolWidth ==
    loading.on => Cardinality(loading.active) <= max_workers

\* a request for more items than max_workers, with a decode in progress
C20_Witness ==
    /\ loading.on
    /\ impl = "server"
    /\ Len(loading.batch) > max_workers
    /\ loading.active # {}

\* C21: when two comment calls for one document have both returned success,
\* the comment list of the document holds the comment of each, also when
\* the calls were sent at the same time and the document had no list
C21_BothCommentsKept ==
    \A c \in Clients, d \in Clients :
        (/\ calls[c].pc = "returned"
         /\ calls[d].pc = "returned"
         /\ calls[c].mid = calls[d].mid)
        => \E i \in 1..Len(message_comments[calls[c].mid]) :
              message_comments[calls[c].mid][i] = calls[c].comment

\* two calls for one document without comments, in flight at the same time,
\* have both returned
C21_Witness ==
    /\ \A c \in Clients : calls[c].pc = "returned" /\ calls[c].overlap
    /\ calls["c1"].mid = calls["c2"].mid
    /\ calls["c1"].absent
    /\ Len(message_comments[calls["c1"].mid]) = 2

\* C22: whichever of a listing that misses the cache and a status write for
\* a document of its page is served first, once the write has returned every
\* listing answered from then on shows the document with the written status
C22_NoStaleListingAfterRace ==
    resp.op = "page" =>
        \A i \in 1..Len(Messages(resp.value)) :
            Messages(resp.value)[i].id \in DOMAIN written
               => Messages(resp.value)[i].status
                     = written[Messages(resp.value)[i].id]

\* a status write was sent while a listing that missed the cache was being
\* served, both have completed, and a listing answered from the cache shows
\* the written status
C22_Witness ==
    /\ resp.op = "page"
    /\ resp.fromCache
    /\ \E c \in Clients :
          /\ calls[c].pc = "returned"
          /\ calls[c].op = "status"
          /\ calls[c].overlap
          /\ \E i \in 1..Len(Messages(resp.value)) :
                /\ Messages(resp.value)[i].id = calls[c].mid
                /\ Messages(resp.value)[i].status = calls[c].status

\* C23: a listing request for a collection id that does not exist is not
\* answered with a page result, and the cache holds no listing entry for a
\* collection that does not exist
C23_MissingCollectionNotFound ==
    /\ resp.op = "page" => PathExists(resp.pid)
    /\ \A pid \in Pids \ DOMAIN fs, key \in DOMAIN cache :
          ~IsPageKeyOf(key, pid)

\* C24: a full view is returned only for the id of an item of the collection
\* asked, and the cache holds a full-document entry only for the id of an
\* item of some collection
C24_UnknownDocumentNotFound ==
    /\ resp.op = "full" => resp.mid \in DocIds(resp.pid)
    /\ (\A pid \in DOMAIN fs : Mid_unknown \notin DocIds(pid))
          => FullKey(Mid_unknown) \notin DOMAIN cache

\* C25: a listing call whose enumeration of the collection failed gives its
\* caller no page result and leaves no cache entry under its key
C25_FailedEnumerationIsError ==
    /\ resp.op = "page" => resp.enum = "ok"
    /\ (resp.op = "page" /\ resp.enum # "ok") => resp.key \notin DOMAIN cache

\* C26: the comment list of a document only grows at its end: over every
\* operation the list before is a prefix of the list after, and a comment
\* write adds to the list exactly one comment, dated by the server with the
\* time of the call
C26_CommentsAppendOnly ==
    [][/\ \A mid \in DOMAIN message_comments :
             /\ mid \in DOMAIN message_comments'
             /\ Len(message_comments[mid]) <= Len(message_comments'[mid])
             /\ SubSeq(message_comments'[mid], 1, Len(message_comments[mid]))
                   = message_comments[mid]
       /\ resp'.op = "comment"
             => /\ message_comments'[resp'.mid]
                      = Append(DictGet(message_comments, resp'.mid, <<>>),
                               resp'.comment)
                /\ resp'.comment.date = now]_vars

\* a second comment was added to a list, later than the first
C26_Witness ==
    /\ resp.op = "comment"
    /\ Len(message_comments[resp.mid]) = 2
    /\ message_comments[resp.mid][2] = resp.comment
    /\ message_comments[resp.mid][1].date < resp.comment.date

\* C27: a clear, the passing of time, a collection listing, a listing and a
\* full view leave the stored statuses and comment lists as they are, and a
\* listing that is computed, as the first one after a clear is, shows every
\* document with the status last written for it
C27_AnnotationsNeverDeleted ==
    /\ []((resp.op = "page" /\ ~resp.fromCache)
             => \A i \in 1..Len(Messages(resp.value)) :
                   Messages(resp.value)[i].id \in DOMAIN written
                      => Messages(resp.value)[i].status
                            = written[Messages(resp.value)[i].id])
    /\ [][resp'.op \in {"clear", "none", "processes", "page", "full"}
             => UNCHANGED <<message_status, message_comments>>]_vars

\* a clear has emptied a cache that held entries, after a status and a
\* comment were written, and the annotation maps still hold them
C27_Witness ==
    /\ resp.op = "clear"
    /\ resp.dropped > 0
    /\ Mid_shared \in DOMAIN written
    /\ message_status[Mid_shared] = written[Mid_shared]
    /\ Mid_shared \in DOMAIN message_comments

\* C28: a document that is held in the cache shows the same comment list
\* after an annotation write as before it
C28_CachedDocumentIsSnapshot ==
    [][resp'.op \in {"comment", "status"}
          => \A key \in DOMAIN cache \cap DOMAIN cache' :
                LET docs == IF Contains(Str_full, key) THEN <<cache[key]>>
                            ELSE Messages(cache[key])
                IN  \A i \in 1..Len(docs) :
                       CommentsOf(docs[i])' = CommentsOf(docs[i])]_vars

\* C29: a listing and a full view, computed or served from the cache, show
\* a document that has no stored status as untagged and a document that has
\* no stored comment list with an empty one, and no listing and no full view
\* adds an entry to the stored statuses or comment lists
C29_DefaultAnnotationOnRead ==
    /\ [](resp.op \in {"page", "full"}
             => LET docs == IF resp.op = "full" THEN <<resp.value>>
                            ELSE Messages(resp.value)
                IN  \A i \in 1..Len(docs) :
                       /\ docs[i].id \notin DOMAIN message_status
                             => docs[i].status = "untagged"
                       /\ docs[i].id \notin DOMAIN message_comments
                             => CommentsOf(docs[i]) = <<>>)
    /\ [][resp'.op \in {"page", "full"}
             => /\ DOMAIN message_status' = DOMAIN message_status
                /\ DOMAIN message_comments' = DOMAIN message_comments]_vars

\* a listing was computed that holds a document without annotation, while
\* another document has a status and comments
C29_Witness ==
    /\ resp.op = "page"
    /\ ~resp.fromCache
    /\ Mid_shared \in DOMAIN message_status \cap DOMAIN message_comments
    /\ \E i \in 1..Len(Messages(resp.value)) :
          /\ Messages(resp.value)[i].id \notin
                DOMAIN message_status \cup DOMAIN message_comments
          /\ Messages(resp.value)[i].status = "untagged"

\* C30: an attachment request for a document that exists, with an index the
\* document has no attachment for (negative, or not less than the number of
\* its attachments, or any index when it has none), is answered not found
C30_MissingAttachmentNotFound ==
    (/\ resp.op = "attachment"
     /\ resp.exists
     /\ ~(0 <= resp.index /\ resp.index < resp.count))
        => resp.code = 404

\* C31: after a status write that names a document and carries the id of a
\* collection other than one that owns it, no listing entry of an owning
\* collection left in the cache shows the document with another status than
\* the written one
C31_WriteInvalidatesOwnerPages ==
    [][(resp'.op = "status" /\ resp'.ok)
          => \A pid \in DOMAIN fs \ {resp'.pid}, key \in DOMAIN cache' :
                (resp'.mid \in DocIds(pid) /\ IsPageKeyOf(key, pid))
                   => \A i \in 1..Len(Messages(cache'[key])) :
                         Messages(cache'[key])[i].id = resp'.mid
                            => Messages(cache'[key])[i].status = resp'.status]_vars

\* the path segment alone: the collection id a request path names, without
\* the query string
C32_SegmentAlone(pid) ==
    IF IndexOf(pid, "?") = 0 THEN pid ELSE SubSeq(pid, 1, IndexOf(pid, "?") - 1)

\* C32: a list-page request answered from a fresh computation reports as
\* total count the number of items of the collection its path segment names,
\* whether or not the path carries a query string
C32_QueryKeepsCollection ==
    (resp.op = "page" /\ ~resp.fromCache
        /\ PathExists(C32_SegmentAlone(resp.pid))
        /\ Len(fs[C32_SegmentAlone(resp.pid)]) > 0)
       => resp.value.total_count = Len(fs[C32_SegmentAlone(resp.pid)])

\* C33: two distinct items of the store, of the same or of different
\* collections, never have the same document identifier
C33_IdsCollisionFree ==
    \A it1 \in StoreItems, it2 \in StoreItems :
        it1 # it2 => MessageId(it1[1], it1[2]) # MessageId(it2[1], it2[2])

\* C34: for every item of every collection, the file stem get_attachment
\* works out from the item's document identifier and its collection id is
\* the stem the identifier was built from
C34_IdentifierRoundTrip ==
    (resp.op = "attachment_url" /\ resp.parsed)
       => \A it \in StoreItems :
             (it[1] = resp.pid /\ MessageId(it[1], it[2]) = resp.mid)
                => resp.original_msg_id = it[2]

\* C35: a request for an attachment URL that a listing emitted is taken
\* apart by the attachment endpoint into the collection, the document and
\* the index the URL was emitted for
C35_EmittedUrlAccepted ==
    (resp.op = "attachment_url" /\ resp.path \in EmittedAttachmentUrls)
       => /\ resp.parsed
          /\ \E it \in StoreItems :
                /\ resp.pid = it[1]
                /\ resp.mid = MessageId(it[1], it[2])
                /\ resp.path = extract_attachments(resp.mid, resp.index + 1)[resp.index + 1].url

\* C36: a call of ListCollections ends by returning a listing, whatever the
\* enumeration of the base folder gives and however often it fails: it
\* never ends with the nesting of get_processes calls cut off by the call
\* stack limit
C36_ListCollectionsReturns ==
    resp.op = "processes" => (resp.ok /\ resp.value # {})

\* C37: an annotation write that is answered as failed has left the stored
\* statuses and the stored comment lists as they were
C37_FailedWriteStoresNothing ==
    [][(resp'.op \in {"status", "comment"} /\ ~resp'.ok)
          => UNCHANGED <<message_status, message_comments>>]_vars

\* C38: the total count of a freshly computed page of a collection is the
\* item count a freshly computed collection listing gives for that
\* collection, for every limit and offset and whatever decodes fail
C38_CountsAgree ==
    (resp.op = "page" /\ ~resp.fromCache /\ PathExists(resp.pid))
       => \A entry \in Enumerate(fs, "ok") :
             entry.id = resp.pid => entry.count = resp.value.total_count

====
